---- MODULE Spec2Model ----
(***************************************************************************)
(* kernel-sidecar: the Action lifecycle, Client.send and the dispatch loop *)
(* of the two client revisions kept in the repository                      *)
(* (client.py KernelSidecarClient, kernel.py SidecarKernelClient).         *)
(***************************************************************************)
EXTENDS Integers, Sequences, FiniteSets, TLC

\* ---------------------------------------------------------------- bounds
\* frames the kernel puts on the bus in one behaviour
MaxFrames == 3
\* calls of Client.send in one behaviour
MaxSends == 2
\* frames waiting in the ingress queue
MaxQueue == 1
\* frames waiting in the ingress queue while callbacks are awaited
MaxBacklog == 2
\* messages handed to the Comm Manager in one behaviour
MaxCommMsgs == 3

\* ------------------------------------------------------------ input sets
ClientClasses == {"KernelSidecarClient", "SidecarKernelClient"}
ActionIds == {"a1", "a2"}
MsgIds == {"m1", "m2"}
NoParent == "none"
NullReply == "null"
CommManager == "comm_manager"
default_handlers == <<"d1">>
UserHandlerLists == {<<"u1", "u2">>}

\* models/messages.py: the variants of the Message union (discriminator msg_type)
MessageTypes ==
    {"status", "execute_input", "execute_result", "stream", "display_data",
     "update_display_data", "execute_reply", "error", "comm_open", "comm_msg",
     "comm_close", "comm_info_reply", "kernel_info_reply", "inspect_reply",
     "complete_reply", "history_reply", "interrupt_reply", "shutdown_reply",
     "debug_reply", "input_request"}

CommTypes == {"comm_open", "comm_msg", "comm_close"}

\* The shapes of frame the kernel emits in the model: (msg_type, execution_state).
\* clear_output is a kernel message that the Message union has no variant for.
FrameShapes ==
    {<<"status", "busy">>, <<"status", "idle">>, <<"execute_reply", "na">>,
     <<"comm_msg", "na">>, <<"clear_output", "na">>}

\* the local variable msg of process_message before its first assignment
UnboundMsg == [parent |-> NoParent, msg_type |-> "unbound", execution_state |-> "na"]

VARIABLES
    clientClass,   \* which client revision is running
    act,           \* the KernelAction objects: id -> fields
    actions,       \* Client.actions, insertion ordered: Seq of [msg_id, action]
    mq,            \* Client.mq, the ingress queue of raw frames
    mq_task,       \* the dispatcher task: "running" or "failed"
    msg,           \* process_message's local variable msg
    emitted,       \* number of frames the kernel has emitted
    wire,          \* requests handed to a channel: Seq of [channel, msg_id]
    sends,         \* number of Client.send calls made
    lastSend,      \* the last Client.send call and how it ended
    observed,      \* per Action: busy / idle / reply in the order it first handled them
    completions,   \* per Action: action_complete calls and the done signal, in order
    calls,         \* per Action: number of messages each handler was invoked with
    pipeline,      \* what the last dispatcher iteration did
    hooks,         \* invocation counts of the Client's error hooks
    pc,            \* the dispatcher's position: "get" (awaiting mq.get) or "await"
    trail,         \* one record per dequeued frame: the callbacks run for it, how it ended
    comms,         \* CommManager.comms: set of [comm_id, handler], one per comm_id
    instances,     \* number of comm handler instances created
    comm_log,      \* what the Comm Manager did with each message it handled
    msg_handler,   \* comm_open: the CommOpenHandler attached to the comm_open Action
    opening,       \* comm_open: the call in progress and how it ended
    stdin_calls,   \* one record per send_stdin call: how it ended
    context,       \* the async context of the Client: "new", "entered" or "exited"
    tasks,         \* every asyncio task created for the channels, in creation order
    channel_watcher_parent_tasks,  \* Client.channel_watcher_parent_tasks: task ids
    channel_watching_tasks,        \* Client.channel_watching_tasks: task ids
    kc_channel,    \* kc._<name>_channel: 0 (None) or the number of the channel object
    opened,        \* per channel: channel objects created so far
    zmq_channels_connected,        \* Client.zmq_channels_connected
    disconnects,   \* per channel: calls of handle_zmq_disconnect
    delivered,     \* per channel: frames the transport has handed to a reader
    dispatched,    \* the frames the dispatcher has taken off the queue, in order
    output_handler,  \* the OutputHandler of one execute request: its fields
    cell,          \* the notebook cell the OutputHandler writes to
    widgets,       \* the Output widgets' comm handlers: comm_id -> state
    handled,       \* one record per message the OutputHandler was called with
    clientSubclass \* the subclass of KernelSidecarClient in use, "none" for the class itself

\* the Client and its Actions
svars == <<clientClass, act, actions, mq, mq_task, msg, emitted, wire, sends, lastSend,
           observed, completions, calls, pipeline, hooks>>
\* the callbacks awaited by the dispatcher
pvars == <<pc, trail>>
\* the Comm Manager
mvars == <<comms, instances, comm_log>>

\* the high-level comm_open call, send_stdin, the output handler, and the
\* subclass that overrides the hooks
ovars == <<msg_handler, opening, stdin_calls, output_handler, cell, widgets, handled,
           clientSubclass>>
\* the OutputHandler, its cell and the Output widgets
hvars == <<output_handler, cell, widgets, handled>>
\* the channel tasks and the async context
cvars == <<context, tasks, channel_watcher_parent_tasks, channel_watching_tasks, kc_channel,
           opened, zmq_channels_connected, disconnects, delivered, dispatched>>

vars == <<svars, pvars, mvars, ovars, cvars>>

\* client.py __aenter__: the channels, in the order their supervisors are created
Channels == <<"iopub", "shell", "control", "stdin">>
ChannelNames == {Channels[i] : i \in DOMAIN Channels}

\* client.py CommOpenHandler.__init__
CommOpenHandler == [comm_err_msg |-> "None", comm_closed_id |-> "None"]

\* no comm_open call and no send_stdin call has been made
NoCalls ==
    /\ msg_handler = CommOpenHandler
    /\ opening = [action |-> "none", comm_id |-> "none", handler |-> 0, result |-> "none",
                  text |-> "None"]
    /\ stdin_calls = <<>>

\* the Output widgets whose comm handlers the Comm Manager holds
WidgetIds == {"w1"}

\* handlers/output.py OutputHandler.__init__, an empty code cell of the
\* notebook, and Output widgets with no outputs
NoOutput ==
    /\ output_handler = [clear_on_next_output |-> FALSE, output_widget_contexts |-> <<>>]
    /\ cell = [outputs |-> <<>>, execution_count |-> "None"]
    /\ widgets = [w \in WidgetIds |-> [outputs |-> <<>>]]
    /\ handled = <<>>

\* client.py __init__: no task yet, no channel opened, every channel marked
\* not connected
Constructed ==
    /\ context = "new"
    /\ tasks = <<>>
    /\ channel_watcher_parent_tasks = <<>>
    /\ channel_watching_tasks = <<>>
    /\ kc_channel = [c \in ChannelNames |-> 0]
    /\ opened = [c \in ChannelNames |-> 0]
    /\ zmq_channels_connected = [c \in ChannelNames |-> FALSE]
    /\ disconnects = [c \in ChannelNames |-> 0]
    /\ delivered = [c \in ChannelNames |-> 0]
    /\ dispatched = <<>>

\* ----------------------------------------------------------- the Action
\* reply table: request msg_type -> expected reply msg_type
REPLY_MSG_TYPES(t) ==
    CASE t = "kernel_info_request" -> "kernel_info_reply"
      [] t = "execute_request" -> "execute_reply"
      [] t = "inspect_request" -> "inspect_reply"
      [] t = "complete_request" -> "complete_reply"
      [] t = "history_request" -> "history_reply"
      [] t = "is_complete_request" -> "is_complete_reply"
      [] t = "comm_info_request" -> "comm_info_reply"
      [] t = "interrupt_request" -> "interrupt_reply"
      [] t = "shutdown_request" -> "shutdown_reply"
      [] t = "debug_request" -> "debug_reply"
      [] t \in CommTypes -> NullReply

\* requests.py: Request._channel
RequestChannel(t) ==
    IF t \in {"interrupt_request", "shutdown_request", "debug_request"} THEN "control"
    ELSE IF t = "input_reply" THEN "stdin" ELSE "shell"

\* KernelAction(request, handlers)
KernelAction(mid, t, hs) ==
    [msg_id |-> mid, msg_type |-> t, handlers |-> hs, sent |-> FALSE, running |-> FALSE,
     kernel_idle |-> FALSE, reply_seen |-> FALSE, done |-> FALSE, safety_net |-> "none"]

\* a variant of maybe_set_future that resolves on either flag
maybe_set_future_Either(s) ==
    IF s.kernel_idle \/ s.reply_seen THEN [s EXCEPT !.done = TRUE] ELSE s

\* actions.py: KernelActionBase.maybe_set_future
maybe_set_future(s) ==
    IF s.kernel_idle /\ s.reply_seen THEN [s EXCEPT !.done = TRUE] ELSE s

\* actions.py: KernelActionBase.handle_status
handle_status(s, m) ==
    IF m.execution_state = "idle"
    THEN maybe_set_future([s EXCEPT !.kernel_idle = TRUE])
    ELSE s

\* actions.py: the handler of the expected reply (handle_execute_reply and its siblings)
handle_reply(s) ==
    maybe_set_future([s EXCEPT !.reply_seen = TRUE])

\* a variant of CommActionBase.handle_status that waits for a reply like the base class
handle_status_AwaitReply(s, m) ==
    IF m.execution_state = "idle"
    THEN IF s.reply_seen THEN [s EXCEPT !.kernel_idle = TRUE, !.done = TRUE]
         ELSE [s EXCEPT !.kernel_idle = TRUE]
    ELSE s

\* actions.py: CommActionBase.handle_status
CommActionBase_handle_status(s, m) ==
    IF m.execution_state = "idle" THEN [s EXCEPT !.done = TRUE] ELSE s


\* ------------------------------------------ KernelAction.handle_message
Handlers == {"u1", "u2", "d1", CommManager, "msg_handler"}

ExpectsReply(s) == REPLY_MSG_TYPES(s.msg_type) # NullReply

IsIdle(m) == m.msg_type = "status" /\ m.execution_state = "idle"
IsBusy(m) == m.msg_type = "status" /\ m.execution_state = "busy"
IsReply(s, m) == ExpectsReply(s) /\ m.msg_type = REPLY_MSG_TYPES(s.msg_type)

\* the internal completion bookkeeping for one message
Bookkeeping(s, m) ==
    IF m.msg_type = "status"
    THEN IF ExpectsReply(s) THEN handle_status(s, m) ELSE CommActionBase_handle_status(s, m)
    ELSE IF IsReply(s, m) THEN handle_reply(s) ELSE s

\* running is set when status=busy for this Action is observed
SetRunning(s, m) ==
    IF IsBusy(m) THEN [s EXCEPT !.running = TRUE] ELSE s

\* the safety-net timer is started when idle is seen and the Action is not done
StartSafetyNet(s, m) ==
    IF IsIdle(m) /\ ~s.done THEN [s EXCEPT !.safety_net = "pending"] ELSE s

\* a variant of Finalize that leaves the running flag set
Finalize_KeepRunning(s) ==
    [s EXCEPT !.safety_net = IF @ = "pending" THEN "cancelled" ELSE @]

\* a variant of Finalize that leaves the safety-net timer armed
Finalize_KeepTimer(s) == [s EXCEPT !.running = FALSE]

\* the transition to done: a pending safety net is cancelled, running is cleared
Finalize(s) ==
    [s EXCEPT !.running = FALSE,
              !.safety_net = IF @ = "pending" THEN "cancelled" ELSE @]

\* on_action_complete on every handler in registration order, then the done signal
CompletionHooks(s) == s.handlers \o <<"done">>

\* the state of a not-yet-done Action after its pipeline has run for message m
ActionAfter(s, m) ==
    LET s2 == Bookkeeping(SetRunning(s, m), m)
    IN  IF s2.done THEN Finalize(s2) ELSE StartSafetyNet(s2, m)

InSeq(q, x) == \E i \in DOMAIN q : q[i] = x

Occurrences(hs, h) == Cardinality({i \in DOMAIN hs : hs[i] = h})

\* a variant of Invoked without the late-message drop
Invoked_AllHandlers(s, m) == s.handlers

\* the handlers action.handle_message(m) invokes, in order
Invoked(s, m) ==
    IF s.done
    THEN IF m.msg_type \in CommTypes /\ InSeq(s.handlers, CommManager)
         THEN <<CommManager>> ELSE <<>>
    ELSE s.handlers

\* busy / idle / reply, when m is one of them for the Action
ObservedKind(s, m) ==
    IF IsIdle(m) THEN <<"idle">> ELSE IF IsBusy(m) THEN <<"busy">>
    ELSE IF IsReply(s, m) THEN <<"reply">> ELSE <<>>

\* the kinds the Action has handled, in the order it first saw them
Observe(q, s, m) ==
    LET k == ObservedKind(s, m)
    IN  IF k = <<>> \/ InSeq(q, k[1]) THEN q ELSE q \o k

\* a variant of handle_message that runs the pipeline on a done Action too
HandleMessage_NoLateGuard(a, m) ==
    LET s == act[a]
    IN  /\ calls' = [calls EXCEPT ![a] =
                        [h \in Handlers |-> @[h] + Occurrences(s.handlers, h)]]
        /\ act' = [act EXCEPT ![a] = ActionAfter(s, m)]
        /\ observed' = [observed EXCEPT ![a] = Observe(@, s, m)]
        /\ completions' = [completions EXCEPT ![a] =
               IF ActionAfter(s, m).done THEN @ \o CompletionHooks(s) ELSE @]

\* action.handle_message(m) for the Action a
HandleMessage(a, m) ==
    LET s == act[a]
        inv == Invoked(s, m)
    IN  /\ calls' = [calls EXCEPT ![a] = [h \in Handlers |-> @[h] + Occurrences(inv, h)]]
        /\ IF s.done
           THEN /\ UNCHANGED <<act, observed, completions>>
           ELSE /\ act' = [act EXCEPT ![a] = ActionAfter(s, m)]
                /\ observed' = [observed EXCEPT ![a] = Observe(@, s, m)]
                /\ completions' = [completions EXCEPT ![a] =
                       IF ActionAfter(s, m).done THEN @ \o CompletionHooks(s) ELSE @]

\* a variant of the timer expiry that records the reply and does not finalize
SafetyNetFire_NoFinalize(a) ==
    /\ act[a].safety_net = "pending"
    /\ act' = [act EXCEPT ![a].reply_seen = TRUE, ![a].safety_net = "fired"]
    /\ UNCHANGED <<clientClass, actions, mq, mq_task, msg, emitted, wire, sends, lastSend,
                   observed, completions, calls, pipeline, hooks>>
    /\ UNCHANGED <<pvars, mvars, ovars, cvars>>

\* the safety-net timer of Action a expires
SafetyNetFire(a) ==
    /\ act[a].safety_net = "pending"
    /\ LET s2 == maybe_set_future([act[a] EXCEPT !.reply_seen = TRUE])
       IN  /\ act' = [act EXCEPT ![a] = [Finalize(s2) EXCEPT !.safety_net = "fired"]]
           /\ completions' = [completions EXCEPT ![a] =
                  IF s2.done THEN @ \o CompletionHooks(s2) ELSE @]
    /\ UNCHANGED <<clientClass, actions, mq, mq_task, msg, emitted, wire, sends, lastSend,
                   observed, calls, pipeline, hooks>>
    /\ UNCHANGED <<pvars, mvars, ovars, cvars>>

\* ------------------------------------------------------------ the Client
Keys == {actions[i].msg_id : i \in DOMAIN actions}
Lookup(mid) == actions[CHOOSE i \in DOMAIN actions : actions[i].msg_id = mid].action
Registered == {actions[i].action : i \in DOMAIN actions}

\* a variant of running_action that returns the most recently registered running Action
running_action_Last ==
    LET R == {i \in DOMAIN actions : act[actions[i].action].running}
    IN  IF R = {} THEN "none"
        ELSE actions[CHOOSE i \in R : \A j \in R : j <= i].action

\* client.py: KernelSidecarClient.running_action
RunningIndexes == {i \in DOMAIN actions : act[actions[i].action].running}
running_action ==
    IF RunningIndexes = {} THEN "none"
    ELSE actions[CHOOSE i \in RunningIndexes : \A j \in RunningIndexes : i <= j].action

\* a variant of send that extends the handler list before its two guards
send_ExtendBeforeGuards(a, ok) ==
    LET hs == act[a].handlers \o default_handlers \o <<CommManager>>
    IN  IF act[a].sent \/ act[a].msg_id \in Keys
        THEN /\ lastSend' = [action |-> a, result |-> "RuntimeError"]
             /\ act' = [act EXCEPT ![a].handlers = hs]
             /\ UNCHANGED <<actions, wire>>
        ELSE IF ok
             THEN /\ wire' = Append(wire, [channel |-> RequestChannel(act[a].msg_type),
                                           msg_id |-> act[a].msg_id])
                  /\ act' = [act EXCEPT ![a].handlers = hs, ![a].sent = TRUE]
                  /\ actions' = Append(actions, [msg_id |-> act[a].msg_id, action |-> a])
                  /\ lastSend' = [action |-> a, result |-> "ok"]
             ELSE /\ act' = [act EXCEPT ![a].handlers = hs]
                  /\ lastSend' = [action |-> a, result |-> "TransportError"]
                  /\ UNCHANGED <<actions, wire>>

\* client.py: KernelSidecarClient.send
KernelSidecarClient_send(a, ok) ==
    IF act[a].sent \/ act[a].msg_id \in Keys
    THEN /\ lastSend' = [action |-> a, result |-> "RuntimeError"]
         /\ UNCHANGED <<act, actions, wire>>
    ELSE LET hs == act[a].handlers \o default_handlers \o <<CommManager>>
         IN  IF ok
             THEN /\ wire' = Append(wire, [channel |-> RequestChannel(act[a].msg_type),
                                           msg_id |-> act[a].msg_id])
                  /\ act' = [act EXCEPT ![a].handlers = hs, ![a].sent = TRUE]
                  /\ actions' = Append(actions, [msg_id |-> act[a].msg_id, action |-> a])
                  /\ lastSend' = [action |-> a, result |-> "ok"]
             ELSE /\ act' = [act EXCEPT ![a].handlers = hs]
                  /\ lastSend' = [action |-> a, result |-> "TransportError"]
                  /\ UNCHANGED <<actions, wire>>

\* kernel.py: SidecarKernelClient.send
SidecarKernelClient_send(a, ok) ==
    IF act[a].sent \/ act[a].msg_id \in Keys
    THEN /\ lastSend' = [action |-> a, result |-> "RuntimeError"]
         /\ UNCHANGED <<act, actions, wire>>
    ELSE /\ actions' = Append(actions, [msg_id |-> act[a].msg_id, action |-> a])
         /\ IF ok
            THEN /\ wire' = Append(wire, [channel |-> RequestChannel(act[a].msg_type),
                                          msg_id |-> act[a].msg_id])
                 /\ act' = [act EXCEPT ![a].sent = TRUE]
                 /\ lastSend' = [action |-> a, result |-> "ok"]
            ELSE /\ lastSend' = [action |-> a, result |-> "TransportError"]
                 /\ UNCHANGED <<act, wire>>

\* a caller submits Action a; the transport send succeeds (ok) or raises
Send(a) ==
    /\ sends < MaxSends
    /\ sends' = sends + 1
    /\ \E ok \in BOOLEAN :
          IF clientClass = "KernelSidecarClient"
          THEN KernelSidecarClient_send(a, ok)
          ELSE SidecarKernelClient_send(a, ok)
    /\ UNCHANGED <<clientClass, mq, mq_task, msg, emitted, observed, completions, calls,
                   pipeline, hooks>>
    /\ UNCHANGED <<pvars, mvars, ovars, cvars>>

\* the kernel (through a channel reader) puts one frame on the ingress queue
KernelEmit ==
    /\ emitted < MaxFrames
    /\ Len(mq) < MaxQueue
    /\ emitted' = emitted + 1
    /\ \E p \in MsgIds \cup {NoParent} :
       \E sh \in (IF p = NoParent THEN {<<"status", "starting">>} ELSE FrameShapes) :
          mq' = Append(mq, [parent |-> p, msg_type |-> sh[1], execution_state |-> sh[2]])
    /\ UNCHANGED <<clientClass, act, actions, mq_task, msg, wire, sends, lastSend,
                   observed, completions, calls, pipeline, hooks>>
    /\ UNCHANGED <<pvars, mvars, ovars, cvars>>

\* one more invocation of the error hook k
Bumped(h, k) == [h EXCEPT ![k] = @ + 1]

Outcome(raw, o, a, m, inv, w) ==
    pipeline' = [raw |-> raw, outcome |-> o, action |-> a, delivered |-> m,
                 invoked |-> inv, warned |-> w]

\* a variant of the routing that hands a message of an unregistered parent to the
\* first registered Action
Route_Fallback(raw, m, h0) ==
    IF m.parent \notin Keys /\ actions = <<>>
    THEN /\ hooks' = Bumped(h0, "untracked")
         /\ Outcome(raw, "untracked", "none", m, <<>>, FALSE)
         /\ UNCHANGED <<act, observed, completions, calls, mq_task>>
    ELSE LET a == IF m.parent \in Keys THEN Lookup(m.parent) ELSE actions[1].action
         IN  /\ HandleMessage(a, m)
             /\ hooks' = h0
             /\ Outcome(raw, "delivered", a, m, Invoked(act[a], m), FALSE)
             /\ UNCHANGED mq_task

\* a variant of the routing that drops a message seen while another Action is running
Route_DropOutOfOrder(raw, m, h0) ==
    IF m.parent \notin Keys
    THEN /\ hooks' = Bumped(h0, "untracked")
         /\ Outcome(raw, "untracked", "none", m, <<>>, FALSE)
         /\ UNCHANGED <<act, observed, completions, calls, mq_task>>
    ELSE LET a == Lookup(m.parent)
             w == running_action # "none" /\ running_action # a
         IN  /\ IF w THEN UNCHANGED <<act, observed, completions, calls>>
                     ELSE HandleMessage(a, m)
             /\ hooks' = h0
             /\ Outcome(raw, IF act[a].done THEN "late" ELSE "delivered", a, m,
                        IF w THEN <<>> ELSE Invoked(act[a], m), w)
             /\ UNCHANGED mq_task

\* lookup, out-of-order warning and action.handle_message(m), shared by both loops
\* (h0 is the hook counts when the iteration gets there)
Route(raw, m, h0) ==
    IF m.parent \notin Keys
    THEN /\ hooks' = Bumped(h0, "untracked")
         /\ Outcome(raw, "untracked", "none", m, <<>>, FALSE)
         /\ UNCHANGED <<act, observed, completions, calls, mq_task>>
    ELSE LET a == Lookup(m.parent)
         IN  /\ HandleMessage(a, m)
             /\ IF act[a].done /\ m.msg_type \notin CommTypes
                THEN hooks' = Bumped(h0, "late") ELSE hooks' = h0
             /\ Outcome(raw, IF act[a].done THEN "late" ELSE "delivered", a, m,
                        Invoked(act[a], m),
                        clientClass = "KernelSidecarClient"
                          /\ running_action # "none" /\ running_action # a)
             /\ UNCHANGED mq_task

\* client.py: one iteration of KernelSidecarClient.process_message
KernelSidecarClient_process_message ==
    LET raw == Head(mq)
    IN  IF raw.parent = NoParent
        THEN /\ hooks' = Bumped(hooks, "orphan")
             /\ Outcome(raw, "orphan", "none", UnboundMsg, <<>>, FALSE)
             /\ UNCHANGED <<act, observed, completions, calls, mq_task, msg>>
        ELSE IF raw.msg_type \in MessageTypes
        THEN /\ msg' = raw
             /\ Route(raw, raw, hooks)
        ELSE \* handle_unparseable_message, and the loop body goes on with the old msg
             /\ UNCHANGED msg
             /\ IF msg = UnboundMsg
                THEN /\ mq_task' = "failed"
                     /\ hooks' = Bumped(hooks, "unparseable")
                     /\ Outcome(raw, "crash", "none", UnboundMsg, <<>>, FALSE)
                     /\ UNCHANGED <<act, observed, completions, calls>>
                ELSE Route(raw, msg, Bumped(hooks, "unparseable"))

\* kernel.py: one iteration of SidecarKernelClient.process_message
SidecarKernelClient_process_message ==
    LET raw == Head(mq)
    IN  IF raw.parent = NoParent
        THEN /\ hooks' = Bumped(hooks, "orphan")
             /\ Outcome(raw, "orphan", "none", UnboundMsg, <<>>, FALSE)
             /\ UNCHANGED <<act, observed, completions, calls, mq_task, msg>>
        ELSE IF raw.msg_type \in MessageTypes
        THEN /\ msg' = raw
             /\ Route(raw, raw, hooks)
        ELSE /\ hooks' = Bumped(hooks, "unparseable")
             /\ Outcome(raw, "unparseable", "none", UnboundMsg, <<>>, FALSE)
             /\ UNCHANGED <<act, observed, completions, calls, mq_task, msg>>

\* the dispatcher takes the next frame off the queue
ProcessMessage ==
    /\ mq_task = "running"
    /\ mq # <<>>
    /\ mq' = Tail(mq)
    /\ IF clientClass = "KernelSidecarClient"
       THEN KernelSidecarClient_process_message
       ELSE SidecarKernelClient_process_message
    /\ UNCHANGED <<clientClass, actions, emitted, wire, sends, lastSend>>
    /\ UNCHANGED <<pvars, mvars, ovars, cvars>>

Init ==
    /\ clientClass \in ClientClasses
    \* a1 expects a reply, a2 is a comm request; a2 may reuse a1's msg_id
    /\ \E mid \in MsgIds : \E hs \in UserHandlerLists :
          act = [a \in ActionIds |->
                    IF a = "a1" THEN KernelAction("m1", "execute_request", hs)
                    ELSE KernelAction(mid, "comm_msg", hs)]
    /\ actions = <<>>
    /\ mq = <<>>
    /\ mq_task = "running"
    /\ msg = UnboundMsg
    /\ emitted = 0
    /\ wire = <<>>
    /\ sends = 0
    /\ lastSend = [action |-> "none", result |-> "none"]
    /\ observed = [a \in ActionIds |-> <<>>]
    /\ completions = [a \in ActionIds |-> <<>>]
    /\ calls = [a \in ActionIds |-> [h \in Handlers |-> 0]]
    /\ pipeline = [raw |-> UnboundMsg, outcome |-> "none", action |-> "none",
                   delivered |-> UnboundMsg, invoked |-> <<>>, warned |-> FALSE]
    /\ hooks = [k \in {"orphan", "unparseable", "untracked", "late"} |-> 0]
    /\ pc = "get"
    /\ trail = <<>>
    /\ comms = {}
    /\ instances = 0
    /\ comm_log = <<>>
    /\ NoCalls
    /\ NoOutput
    /\ clientSubclass = "none"
    /\ Constructed

Next ==
    \/ \E a \in ActionIds : Send(a)
    \/ KernelEmit
    \/ ProcessMessage
    \/ \E a \in ActionIds : SafetyNetFire(a)

Spec == Init /\ [][Next]_vars

\* The event loop runs every task that is ready: the dispatcher when the queue
\* holds a frame, a safety-net timer when its delay has elapsed.
FairSpec ==
    /\ Init /\ [][Next]_vars
    /\ WF_vars(ProcessMessage)
    /\ \A a \in ActionIds : WF_vars(SafetyNetFire(a))

\* ------------------------------------------- the callbacks of one message
\* actions.py: what KernelActionBase.handle_message awaits for one message, in
\* order: the Action's own handle_<msg_type>, then its observers
Callbacks == <<"handler", "o1", "o2">>

CallbackOutcomes == {"returns", "raises"}

\* actions.py: KernelActionBase.handle_message, up to and including its next
\* await. e is the record of the message being handled; the next callback
\* returns or raises.
\*   ending "running": handle_message is still going on
\*          "ok": it returned after the last observer
\*          "handler_error": the handler raised, logged, handle_message returned
\*          "observer_error": an observer raised, the exception leaves handle_message
KernelActionBase_handle_message(e, outcome) ==
    LET k == Len(e.invoked) + 1
        inv == Append(e.invoked, Callbacks[k])
    IN  IF outcome = "raises"
        THEN [e EXCEPT !.invoked = inv,
                       !.ending = IF k = 1 THEN "handler_error" ELSE "observer_error"]
        ELSE [e EXCEPT !.invoked = inv,
                       !.ending = IF k = Len(Callbacks) THEN "ok" ELSE "running"]

\* process_message: the state of the dispatcher task after an exception came
\* out of asyncio.wait_for(action.handle_message(msg), timeout)
\*   client.py: the bare except logs it and the loop goes on
\*   kernel.py: `except Exception as e: ... raise e` ends the task
AfterPipelineException ==
    IF clientClass = "KernelSidecarClient" THEN "running" ELSE "failed"

Last(q) == q[Len(q)]

\* a channel reader puts a frame of a registered Action on the ingress queue
ReaderPut ==
    /\ emitted < MaxFrames
    /\ Len(mq) < MaxBacklog
    /\ emitted' = emitted + 1
    /\ \E p \in MsgIds :
          mq' = Append(mq, [parent |-> p, msg_type |-> "stream", execution_state |-> "na",
                            seq |-> emitted + 1])
    /\ UNCHANGED <<clientClass, act, actions, mq_task, msg, wire, sends, lastSend,
                   observed, completions, calls, pipeline, hooks>>
    /\ UNCHANGED <<pvars, mvars, ovars, cvars>>

\* a variant of Dequeue that does not wait for the callbacks of the previous frame
Dequeue_NoAwait ==
    /\ mq_task = "running"
    /\ mq # <<>>
    /\ mq' = Tail(mq)
    /\ msg' = Head(mq)
    /\ trail' = Append(trail, [seq |-> Head(mq).seq, action |-> Lookup(Head(mq).parent),
                               invoked |-> <<>>, ending |-> "running"])
    /\ pc' = "await"
    /\ UNCHANGED <<clientClass, act, actions, mq_task, emitted, wire, sends, lastSend,
                   observed, completions, calls, pipeline, hooks>>
    /\ UNCHANGED <<mvars, ovars, cvars>>

\* process_message: mq.get(), parse, lookup, and the start of
\* wait_for(action.handle_message(msg))
Dequeue ==
    /\ mq_task = "running"
    /\ pc = "get"
    /\ mq # <<>>
    /\ mq' = Tail(mq)
    /\ msg' = Head(mq)
    /\ trail' = Append(trail, [seq |-> Head(mq).seq, action |-> Lookup(Head(mq).parent),
                               invoked |-> <<>>, ending |-> "running"])
    /\ pc' = "await"
    /\ UNCHANGED <<clientClass, act, actions, mq_task, emitted, wire, sends, lastSend,
                   observed, completions, calls, pipeline, hooks>>
    /\ UNCHANGED <<mvars, ovars, cvars>>

\* the next callback of the message being handled runs
Callback ==
    /\ mq_task = "running"
    /\ pc = "await"
    /\ Last(trail).ending = "running"
    /\ \E outcome \in CallbackOutcomes :
          LET e == KernelActionBase_handle_message(Last(trail), outcome)
          IN  /\ trail' = [trail EXCEPT ![Len(trail)] = e]
              /\ pc' = IF e.ending = "running" THEN "await" ELSE "get"
              /\ mq_task' = IF e.ending = "observer_error"
                            THEN AfterPipelineException ELSE mq_task
    /\ UNCHANGED <<clientClass, act, actions, mq, msg, emitted, wire, sends, lastSend,
                   observed, completions, calls, pipeline, hooks>>
    /\ UNCHANGED <<mvars, ovars, cvars>>

\* handler_timeout elapses while handle_message is awaited: wait_for cancels
\* handle_message and raises asyncio.TimeoutError in process_message
HandlerTimeout ==
    /\ mq_task = "running"
    /\ pc = "await"
    /\ Last(trail).ending = "running"
    /\ trail' = [trail EXCEPT ![Len(trail)].ending = "timeout"]
    /\ pc' = "get"
    /\ mq_task' = AfterPipelineException
    /\ UNCHANGED <<clientClass, act, actions, mq, msg, emitted, wire, sends, lastSend,
                   observed, completions, calls, pipeline, hooks>>
    /\ UNCHANGED <<mvars, ovars, cvars>>

\* both Actions have been sent and are registered
PipelineInit ==
    /\ clientClass \in ClientClasses
    /\ \E hs \in UserHandlerLists :
          act = [a \in ActionIds |->
                    [KernelAction(IF a = "a1" THEN "m1" ELSE "m2", "execute_request", hs)
                        EXCEPT !.sent = TRUE]]
    /\ actions = <<[msg_id |-> "m1", action |-> "a1"], [msg_id |-> "m2", action |-> "a2"]>>
    /\ mq = <<>>
    /\ mq_task = "running"
    /\ msg = UnboundMsg
    /\ emitted = 0
    /\ wire = <<[channel |-> "shell", msg_id |-> "m1"], [channel |-> "shell", msg_id |-> "m2"]>>
    /\ sends = 2
    /\ lastSend = [action |-> "a2", result |-> "ok"]
    /\ observed = [a \in ActionIds |-> <<>>]
    /\ completions = [a \in ActionIds |-> <<>>]
    /\ calls = [a \in ActionIds |-> [h \in Handlers |-> 0]]
    /\ pipeline = [raw |-> UnboundMsg, outcome |-> "none", action |-> "none",
                   delivered |-> UnboundMsg, invoked |-> <<>>, warned |-> FALSE]
    /\ hooks = [k \in {"orphan", "unparseable", "untracked", "late"} |-> 0]
    /\ pc = "get"
    /\ trail = <<>>
    /\ comms = {}
    /\ instances = 0
    /\ comm_log = <<>>
    /\ NoCalls
    /\ NoOutput
    /\ clientSubclass = "none"
    /\ Constructed

PipelineNext ==
    \/ ReaderPut
    \/ Dequeue
    \/ Callback
    \/ HandlerTimeout

\* the dispatcher at the granularity of the callbacks it awaits
PipelineSpec == PipelineInit /\ [][PipelineNext]_vars

\* ------------------------------------------------------ the Comm Manager
CommIds == {"c1", "c2"}
\* CommManager.handlers: the target names that have a handler class
targets == {"t1"}
TargetNames == {"t1", "tx"}
NoHandler == 0

CommKeys == {c.comm_id : c \in comms}
CommHandlerOf(id) == (CHOOSE c \in comms : c.comm_id = id).handler

\* one entry of comm_log: the message (target_name is "na" unless it is a
\* comm_open), the handler instance it was delivered to (NoHandler if none),
\* the hook that was invoked ("none" if none), and whether the call raised
Handled(t, id, target, h, hook, raised) ==
    [msg_type |-> t, comm_id |-> id, target_name |-> target, to |-> h, hook |-> hook,
     raised |-> raised]

\* a variant of handle_comm_open that looks at the target name first
handle_comm_open_TargetFirst(id, target, outcome) ==
    IF target \notin targets
    THEN /\ comm_log' = Append(comm_log, Handled("comm_open", id, target, NoHandler,
                                                 "unrecognized_comm_target", FALSE))
         /\ UNCHANGED <<comms, instances>>
    ELSE IF id \in CommKeys
    THEN /\ comm_log' = Append(comm_log, Handled("comm_open", id, target, CommHandlerOf(id),
                                                 "none", outcome = "raises"))
         /\ UNCHANGED <<comms, instances>>
    ELSE /\ instances' = instances + 1
         /\ comms' = comms \cup {[comm_id |-> id, handler |-> instances + 1]}
         /\ comm_log' = Append(comm_log, Handled("comm_open", id, target, instances + 1,
                                                 "none", outcome = "raises"))

\* comms.py: CommManager.handle_comm_open
handle_comm_open(id, target, outcome) ==
    IF id \in CommKeys
    THEN /\ comm_log' = Append(comm_log, Handled("comm_open", id, target, CommHandlerOf(id), "none",
                                                 outcome = "raises"))
         /\ UNCHANGED <<comms, instances>>
    ELSE IF target \notin targets
    THEN /\ comm_log' = Append(comm_log, Handled("comm_open", id, target, NoHandler,
                                                 "unrecognized_comm_target", FALSE))
         /\ UNCHANGED <<comms, instances>>
    ELSE /\ instances' = instances + 1
         /\ comms' = comms \cup {[comm_id |-> id, handler |-> instances + 1]}
         /\ comm_log' = Append(comm_log, Handled("comm_open", id, target, instances + 1, "none",
                                                 outcome = "raises"))

\* a variant of handle_comm_msg that indexes comms without the membership test
handle_comm_msg_Unchecked(id, outcome) ==
    /\ IF id \notin CommKeys
       THEN comm_log' = Append(comm_log, Handled("comm_msg", id, "na", NoHandler, "none", TRUE))
       ELSE comm_log' = Append(comm_log, Handled("comm_msg", id, "na", CommHandlerOf(id),
                                                 "none", outcome = "raises"))
    /\ UNCHANGED <<comms, instances>>

\* comms.py: CommManager.handle_comm_msg
handle_comm_msg(id, outcome) ==
    /\ IF id \notin CommKeys
       THEN comm_log' = Append(comm_log, Handled("comm_msg", id, "na", NoHandler,
                                                 "unrecognized_comm_id", FALSE))
       ELSE comm_log' = Append(comm_log, Handled("comm_msg", id, "na", CommHandlerOf(id), "none",
                                                 outcome = "raises"))
    /\ UNCHANGED <<comms, instances>>

\* comms.py: CommManager.handle_comm_close
handle_comm_close(id, outcome) ==
    IF id \notin CommKeys
    THEN /\ comm_log' = Append(comm_log, Handled("comm_close", id, "na", NoHandler,
                                                 "unrecognized_comm_id", FALSE))
         /\ UNCHANGED <<comms, instances>>
    ELSE /\ comm_log' = Append(comm_log, Handled("comm_close", id, "na", CommHandlerOf(id), "none",
                                                 outcome = "raises"))
         \* `await handler(msg)` comes before `del self.comms[comm_id]`
         /\ comms' = IF outcome = "raises" THEN comms
                     ELSE {c \in comms : c.comm_id # id}
         /\ UNCHANGED instances

\* the Comm Manager is called with a comm_open message
CommOpen ==
    /\ Len(comm_log) < MaxCommMsgs
    /\ \E id \in CommIds : \E target \in TargetNames : \E outcome \in CallbackOutcomes :
          handle_comm_open(id, target, outcome)
    /\ UNCHANGED <<svars, pvars, ovars, cvars>>

\* requests.py: the content.comm_id of the Action's request, if it is a comm request
RequestCommId(a) == IF act[a].msg_type \in CommTypes THEN "c1" ELSE "none"

\* the comm_msg frame the kernel emits for comm id under the request of Action a
CommMsgFrame(a, id) ==
    [parent |-> act[a].msg_id, msg_type |-> "comm_msg", execution_state |-> "na",
     comm_id |-> id]

\* a variant of CommMsg that routes by the comm_id of the parent request
CommMsg_ByRequest ==
    /\ Len(comm_log) < MaxCommMsgs
    /\ \E a \in ActionIds : \E id \in CommIds : \E outcome \in CallbackOutcomes :
          /\ HandleMessage(a, CommMsgFrame(a, id))
          /\ Outcome(CommMsgFrame(a, id), "delivered", a, CommMsgFrame(a, id),
                     act[a].handlers, FALSE)
          /\ handle_comm_msg(IF RequestCommId(a) \in CommIds THEN RequestCommId(a) ELSE id,
                             outcome)
    /\ UNCHANGED <<clientClass, actions, mq, mq_task, msg, emitted, wire, sends, lastSend,
                   hooks>>
    /\ UNCHANGED <<pvars, ovars, cvars>>

\* the dispatcher delivers a comm_msg, seen under the request of Action a, to
\* the Action: its handlers run in order, the Comm Manager last
CommMsg ==
    /\ Len(comm_log) < MaxCommMsgs
    /\ \E a \in ActionIds : \E id \in CommIds : \E outcome \in CallbackOutcomes :
          /\ HandleMessage(a, CommMsgFrame(a, id))
          /\ Outcome(CommMsgFrame(a, id), "delivered", a, CommMsgFrame(a, id),
                     act[a].handlers, FALSE)
          /\ handle_comm_msg(id, outcome)
    /\ UNCHANGED <<clientClass, actions, mq, mq_task, msg, emitted, wire, sends, lastSend,
                   hooks>>
    /\ UNCHANGED <<pvars, ovars, cvars>>

\* the Comm Manager is called with a comm_close message
CommClose ==
    /\ Len(comm_log) < MaxCommMsgs
    /\ \E id \in CommIds : \E outcome \in CallbackOutcomes : handle_comm_close(id, outcome)
    /\ UNCHANGED <<svars, pvars, ovars, cvars>>

CommNext ==
    \/ CommOpen
    \/ CommMsg
    \/ CommClose

\* a KernelSidecarClient that has sent an execute_request (a1) and a comm_msg
\* request (a2)
CommInit ==
    /\ clientClass = "KernelSidecarClient"
    /\ \E hs \in UserHandlerLists :
          act = [a \in ActionIds |->
                    [KernelAction(IF a = "a1" THEN "m1" ELSE "m2",
                                  IF a = "a1" THEN "execute_request" ELSE "comm_msg",
                                  hs \o default_handlers \o <<CommManager>>)
                        EXCEPT !.sent = TRUE]]
    /\ actions = <<[msg_id |-> "m1", action |-> "a1"], [msg_id |-> "m2", action |-> "a2"]>>
    /\ mq = <<>>
    /\ mq_task = "running"
    /\ msg = UnboundMsg
    /\ emitted = 0
    /\ wire = <<[channel |-> "shell", msg_id |-> "m1"], [channel |-> "shell", msg_id |-> "m2"]>>
    /\ sends = 2
    /\ lastSend = [action |-> "a2", result |-> "ok"]
    /\ observed = [a \in ActionIds |-> <<>>]
    /\ completions = [a \in ActionIds |-> <<>>]
    /\ calls = [a \in ActionIds |-> [h \in Handlers |-> 0]]
    /\ pipeline = [raw |-> UnboundMsg, outcome |-> "none", action |-> "none",
                   delivered |-> UnboundMsg, invoked |-> <<>>, warned |-> FALSE]
    /\ hooks = [k \in {"orphan", "unparseable", "untracked", "late"} |-> 0]
    /\ pc = "get"
    /\ trail = <<>>
    /\ comms = {}
    /\ instances = 0
    /\ comm_log = <<>>
    /\ NoCalls
    /\ NoOutput
    /\ clientSubclass = "none"
    /\ Constructed

\* the Comm Manager of a Client, handed any sequence of comm messages
CommSpec == CommInit /\ [][CommNext]_vars

\* ================================================================ claims

\* ------------------------------------------ comm_open and send_stdin
\* frames the kernel emits in answer to one comm_open request
MaxOpenFrames == 3
\* calls of send_stdin in one behaviour
MaxStdin == 1

\* the text of the kernel's stderr stream
StderrTexts == {"No such comm target"}

\* the frames the kernel can emit under the comm_open request of Action a
OpenFrames(a) ==
    LET f(t, e, n, x, c) == [parent |-> act[a].msg_id, msg_type |-> t, execution_state |-> e,
                             name |-> n, text |-> x, comm_id |-> c]
    IN  {f("status", "busy", "na", "na", "na"), f("status", "idle", "na", "na", "na"),
         f("stream", "na", "stdout", "out", "na")}
        \cup {f("stream", "na", "stderr", x, "na") : x \in StderrTexts}
        \cup {f(t, "na", "na", "na", c) : t \in {"comm_msg", "comm_close"}, c \in CommIds}

\* client.py: CommOpenHandler.handle_stream
CommOpenHandler_handle_stream(h, m) ==
    IF m.name = "stderr" THEN [h EXCEPT !.comm_err_msg = m.text] ELSE h

\* client.py: CommOpenHandler.handle_comm_close
CommOpenHandler_handle_comm_close(h, m) == [h EXCEPT !.comm_closed_id = m.comm_id]

\* the CommOpenHandler after it was invoked with m
CommOpenHandler_handle(h, m) ==
    IF m.msg_type = "stream" THEN CommOpenHandler_handle_stream(h, m)
    ELSE IF m.msg_type = "comm_close" THEN CommOpenHandler_handle_comm_close(h, m)
    ELSE h

\* a variant of the end of comm_open that raises on a stderr stream as well
comm_open_result_OnStderr(h, id) ==
    IF h.comm_closed_id = id \/ h.comm_err_msg # "None" THEN "CommTargetNotFound"
    ELSE "returned"

\* client.py comm_open, after `await action`: raise CommTargetNotFound or
\* return the comm handler
comm_open_result(h, id) ==
    IF h.comm_closed_id = id THEN "CommTargetNotFound" ELSE "returned"

\* a variant of comm_open that stores the comm handler only after `await action`
comm_open_NoPreRegister ==
    /\ opening.result = "none"
    /\ sends < MaxSends
    /\ sends' = sends + 1
    /\ msg_handler' = CommOpenHandler
    /\ \E ok \in BOOLEAN :
          /\ KernelSidecarClient_send("a1", ok)
          /\ IF ok
             THEN /\ instances' = instances + 1
                  /\ opening' = [action |-> "a1", comm_id |-> RequestCommId("a1"),
                                 handler |-> instances + 1, result |-> "awaiting",
                                 text |-> "None"]
                  /\ UNCHANGED comms
             ELSE /\ opening' = [opening EXCEPT !.action = "a1", !.result = "TransportError"]
                  /\ UNCHANGED <<comms, instances>>
    /\ UNCHANGED <<clientClass, mq, mq_task, msg, emitted, observed, completions, calls,
                   pipeline, hooks, comm_log, stdin_calls, hvars, clientSubclass>>
    /\ UNCHANGED <<pvars, cvars>>

\* client.py comm_open up to `await action`: a CommOpenHandler, the
\* comm_open request sent as Action a1, the comm handler stored under the
\* comm_id of the request
comm_open ==
    /\ opening.result = "none"
    /\ sends < MaxSends
    /\ sends' = sends + 1
    /\ msg_handler' = CommOpenHandler
    /\ \E ok \in BOOLEAN :
          /\ KernelSidecarClient_send("a1", ok)
          /\ IF ok
             THEN /\ instances' = instances + 1
                  /\ comms' = {c \in comms : c.comm_id # RequestCommId("a1")}
                              \cup {[comm_id |-> RequestCommId("a1"), handler |-> instances + 1]}
                  /\ opening' = [action |-> "a1", comm_id |-> RequestCommId("a1"),
                                 handler |-> instances + 1, result |-> "awaiting",
                                 text |-> "None"]
             ELSE /\ opening' = [opening EXCEPT !.action = "a1", !.result = "TransportError"]
                  /\ UNCHANGED <<comms, instances>>
    /\ UNCHANGED <<clientClass, mq, mq_task, msg, emitted, observed, completions, calls,
                   pipeline, hooks, comm_log, stdin_calls, hvars, clientSubclass>>
    /\ UNCHANGED <<pvars, cvars>>

\* the dispatcher delivers a frame of the comm_open request to its Action: the
\* CommOpenHandler first, the Comm Manager last
OpenFrame ==
    /\ opening.action # "none"
    /\ opening.action \in Registered
    /\ emitted < MaxOpenFrames
    /\ emitted' = emitted + 1
    /\ \E m \in OpenFrames(opening.action) : \E outcome \in CallbackOutcomes :
          LET a == opening.action
              inv == Invoked(act[a], m)
          IN  /\ HandleMessage(a, m)
              /\ Outcome(m, "delivered", a, m, inv, FALSE)
              /\ dispatched' = Append(dispatched, [frame |-> m, late |-> act[a].done])
              /\ msg_handler' = IF InSeq(inv, "msg_handler")
                                THEN CommOpenHandler_handle(msg_handler, m)
                                ELSE msg_handler
              /\ IF m.msg_type = "comm_close" /\ InSeq(inv, CommManager)
                 THEN handle_comm_close(m.comm_id, outcome)
                 ELSE IF m.msg_type = "comm_msg" /\ InSeq(inv, CommManager)
                 THEN handle_comm_msg(m.comm_id, outcome)
                 ELSE outcome = "returns" /\ UNCHANGED mvars
    /\ UNCHANGED <<clientClass, actions, mq, mq_task, msg, wire, sends, lastSend, hooks,
                   opening, stdin_calls, hvars, clientSubclass>>
    /\ UNCHANGED <<pvars, context, tasks, channel_watcher_parent_tasks,
                   channel_watching_tasks, kc_channel, opened, zmq_channels_connected,
                   disconnects, delivered>>

\* client.py comm_open after `await action`
comm_open_return ==
    /\ opening.result = "awaiting"
    /\ act[opening.action].done
    /\ opening' = [opening EXCEPT !.result = comm_open_result(msg_handler, opening.comm_id),
                                  !.text = msg_handler.comm_err_msg]
    /\ UNCHANGED <<svars, pvars, mvars, msg_handler, stdin_calls, hvars, clientSubclass, cvars>>

\* a variant of send_stdin that lets the transport error out
send_stdin_Raising(ok) == IF ok THEN "returned" ELSE "TransportError"

\* client.py: send_stdin, what the caller sees
send_stdin(ok) == "returned"

\* client.py: send_stdin; the transport send succeeds or raises
SendStdin ==
    /\ Len(stdin_calls) < MaxStdin
    /\ \E ok \in BOOLEAN :
          /\ wire' = IF ok
                     THEN Append(wire, [channel |-> RequestChannel("input_reply"),
                                        msg_id |-> "input_reply"])
                     ELSE wire
          /\ stdin_calls' = Append(stdin_calls, [sent |-> ok, result |-> send_stdin(ok)])
    /\ UNCHANGED <<clientClass, act, actions, mq, mq_task, msg, emitted, sends, lastSend,
                   observed, completions, calls, pipeline, hooks, msg_handler, opening, hvars, clientSubclass>>
    /\ UNCHANGED <<pvars, mvars, cvars>>

\* a KernelSidecarClient that knows the comm c2 and has made no request
CallInit ==
    /\ clientClass = "KernelSidecarClient"
    /\ act = [a \in ActionIds |->
                 IF a = "a1" THEN KernelAction("m1", "comm_open", <<"msg_handler">>)
                 ELSE KernelAction("m2", "execute_request", <<>>)]
    /\ actions = <<>>
    /\ mq = <<>>
    /\ mq_task = "running"
    /\ msg = UnboundMsg
    /\ emitted = 0
    /\ wire = <<>>
    /\ sends = 0
    /\ lastSend = [action |-> "none", result |-> "none"]
    /\ observed = [a \in ActionIds |-> <<>>]
    /\ completions = [a \in ActionIds |-> <<>>]
    /\ calls = [a \in ActionIds |-> [h \in Handlers |-> 0]]
    /\ pipeline = [raw |-> UnboundMsg, outcome |-> "none", action |-> "none",
                   delivered |-> UnboundMsg, invoked |-> <<>>, warned |-> FALSE]
    /\ hooks = [k \in {"orphan", "unparseable", "untracked", "late"} |-> 0]
    /\ pc = "get"
    /\ trail = <<>>
    /\ comms = {[comm_id |-> "c2", handler |-> 1]}
    /\ instances = 1
    /\ comm_log = <<>>
    /\ NoCalls
    /\ NoOutput
    /\ clientSubclass = "none"
    /\ Constructed

CallNext ==
    \/ comm_open
    \/ OpenFrame
    \/ comm_open_return
    \/ SendStdin

\* the calls an application makes on the client besides send
CallSpec == CallInit /\ [][CallNext]_vars

\* ---------------------------------------------------- the channel tasks
\* monitor disconnect events and reader failures in one behaviour
MaxDisconnects == 1
\* frames the transport hands to the readers in one behaviour
MaxReceived == 2

\* the channels on which the transport delivers frames, reports monitor
\* events or fails; the other two stay quiet
BusyChannels == {"iopub", "shell"}

\* asyncio.create_task(coro): the task exists and has not run yet. gen is the
\* number of the channel object a reader was given (0 for the other tasks).
Task(coro, c, gen) ==
    [coro |-> coro, channel |-> c, gen |-> gen, state |-> "created", sub |-> <<>>,
     must_cancel |-> FALSE, cause |-> "none"]

Ended == {"returned", "raised", "cancelled"}
Final(t) == tasks[t].state \in Ended

\* a variant of Task.cancel() that requests nothing
Cancel_Nothing(ts, S) == ts

\* Task.cancel() on each task of S: a request that is delivered when the task
\* next runs; nothing happens to a task that has ended
Cancel(ts, S) ==
    [t \in DOMAIN ts |->
        IF t \in S /\ ts[t].state \notin Ended THEN [ts[t] EXCEPT !.must_cancel = TRUE]
        ELSE ts[t]]

\* list.remove for each element of S
Remove(q, S) == SelectSeq(q, LAMBDA x : x \notin S)

\* sub-tasks that ended on their own: a disconnect event or a transport error
Events == Cardinality({t \in DOMAIN tasks : tasks[t].cause = "event"})

Received == delivered[Channels[1]] + delivered[Channels[2]] + delivered[Channels[3]]
            + delivered[Channels[4]]

\* watch_channel up to `await asyncio.wait(...)`: supervisor t has created its
\* reader and its monitor for channel object gen
Watching(ts, t, gen) ==
    LET c == ts[t].channel
    IN  [Append(Append(ts, Task("_watch_channel_for_messages", c, gen)),
                Task("_watch_channel_for_status", c, 0))
            EXCEPT ![t].state = "waiting", ![t].sub = <<Len(ts) + 1, Len(ts) + 2>>]

\* task.exception() of a finished task is truthy or itself raises
Failed(S) == \E u \in S : tasks[u].state \in {"raised", "cancelled"}

\* client.py __aenter__ / kernel.py __aenter__: one supervisor per channel and
\* the dispatcher; client.py also marks every channel connected
aenter ==
    /\ context = "new"
    /\ context' = "entered"
    /\ tasks' = [i \in DOMAIN Channels |-> Task("watch_channel", Channels[i], 0)]
    /\ channel_watcher_parent_tasks' = [i \in DOMAIN Channels |-> i]
    /\ zmq_channels_connected' =
          IF clientClass = "KernelSidecarClient" THEN [c \in ChannelNames |-> TRUE]
          ELSE zmq_channels_connected
    /\ mq_task' = "running"
    /\ UNCHANGED <<clientClass, act, actions, mq, msg, emitted, wire, sends, lastSend,
                   observed, completions, calls, pipeline, hooks>>
    /\ UNCHANGED <<pvars, mvars, ovars, channel_watching_tasks, kc_channel, opened,
                   disconnects, delivered, dispatched>>

\* a created task runs for the first time; the event loop starts tasks in the
\* order they were created. A supervisor reads kc.<name>_channel (a new
\* channel object when the cached one is None) and creates its two sub-tasks.
Start(t) ==
    /\ tasks[t].state = "created"
    /\ ~tasks[t].must_cancel
    /\ \A u \in 1..(t - 1) : tasks[u].state # "created"
    /\ IF tasks[t].coro = "watch_channel"
       THEN LET c == tasks[t].channel
                gen == IF kc_channel[c] = 0 THEN opened[c] + 1 ELSE kc_channel[c]
            IN  /\ opened' = [opened EXCEPT ![c] = IF kc_channel[c] = 0 THEN @ + 1 ELSE @]
                /\ kc_channel' = [kc_channel EXCEPT ![c] = gen]
                /\ tasks' = Watching(tasks, t, gen)
                /\ channel_watching_tasks' =
                      channel_watching_tasks \o <<Len(tasks) + 1, Len(tasks) + 2>>
       ELSE /\ tasks' = [tasks EXCEPT ![t].state = "running"]
            /\ UNCHANGED <<opened, kc_channel, channel_watching_tasks>>
    /\ UNCHANGED <<svars, pvars, mvars, ovars, context, channel_watcher_parent_tasks,
                   zmq_channels_connected, disconnects, delivered, dispatched>>

\* client.py handle_zmq_disconnect, which does nothing, and its override in
\* test_zmq_disconnect.py DisconnectHandlingClient, which resolves the running
\* Action: the Actions after the hook
handle_zmq_disconnect_Pass(acts) == acts

handle_zmq_disconnect(acts) ==
    IF clientSubclass = "DisconnectHandlingClient" /\ running_action # "none"
    THEN [acts EXCEPT ![running_action].done = TRUE, ![running_action].running = FALSE]
    ELSE acts

\* a variant of the client.py supervisor that does not spawn a replacement
watch_channel_NoReplacement(t) ==
    LET c == tasks[t].channel
        sub == {tasks[t].sub[1], tasks[t].sub[2]}
        done == {u \in sub : Final(u)}
    IN  /\ kc_channel' = [kc_channel EXCEPT ![c] = 0]
        /\ UNCHANGED channel_watcher_parent_tasks
        /\ tasks' = [Cancel(tasks, sub \ done) EXCEPT ![t].state = "returned"]
        /\ channel_watching_tasks' = Remove(channel_watching_tasks, sub)
        /\ disconnects' = [disconnects EXCEPT ![c] = @ + 1]
        /\ act' = handle_zmq_disconnect(act)
        /\ UNCHANGED opened

\* client.py watch_channel after asyncio.wait returned: drop the cached
\* channel, create the replacement supervisor, cancel the pending sub-task,
\* re-raise the exception of a finished one, else forget the two sub-tasks and
\* call handle_zmq_disconnect
KernelSidecarClient_watch_channel(t) ==
    LET c == tasks[t].channel
        sub == {tasks[t].sub[1], tasks[t].sub[2]}
        done == {u \in sub : Final(u)}
        ts == Append(Cancel(tasks, sub \ done), Task("watch_channel", c, 0))
    IN  /\ kc_channel' = [kc_channel EXCEPT ![c] = 0]
        /\ channel_watcher_parent_tasks' = Append(channel_watcher_parent_tasks, Len(tasks) + 1)
        /\ IF Failed(done)
           THEN /\ tasks' = [ts EXCEPT ![t].state = "raised"]
                /\ UNCHANGED <<channel_watching_tasks, disconnects, act>>
           ELSE /\ tasks' = [ts EXCEPT ![t].state = "returned"]
                /\ channel_watching_tasks' = Remove(channel_watching_tasks, sub)
                /\ disconnects' = [disconnects EXCEPT ![c] = @ + 1]
                /\ act' = handle_zmq_disconnect(act)
        /\ UNCHANGED opened

\* kernel.py watch_channel after asyncio.wait returned: cancel the pending
\* sub-task, re-raise the exception of a finished one, else forget the two
\* sub-tasks, drop the cached channel and call watch_channel again in the same
\* task (which opens a new channel object and creates two new sub-tasks)
SidecarKernelClient_watch_channel(t) ==
    LET c == tasks[t].channel
        sub == {tasks[t].sub[1], tasks[t].sub[2]}
        done == {u \in sub : Final(u)}
    IN  /\ UNCHANGED <<channel_watcher_parent_tasks, disconnects, act>>
        /\ IF Failed(done)
           THEN /\ tasks' = [Cancel(tasks, sub \ done) EXCEPT ![t].state = "raised"]
                /\ UNCHANGED <<channel_watching_tasks, kc_channel, opened>>
           ELSE /\ tasks' = Watching(Cancel(tasks, sub \ done), t, opened[c] + 1)
                /\ channel_watching_tasks' =
                      Remove(channel_watching_tasks, sub) \o <<Len(tasks) + 1, Len(tasks) + 2>>
                /\ opened' = [opened EXCEPT ![c] = @ + 1]
                /\ kc_channel' = [kc_channel EXCEPT ![c] = opened[c] + 1]

\* asyncio.wait(..., FIRST_COMPLETED) of supervisor t returns
Cycle(t) ==
    /\ tasks[t].coro = "watch_channel"
    /\ tasks[t].state = "waiting"
    /\ ~tasks[t].must_cancel
    /\ Final(tasks[t].sub[1]) \/ Final(tasks[t].sub[2])
    /\ IF clientClass = "KernelSidecarClient"
       THEN KernelSidecarClient_watch_channel(t)
       ELSE SidecarKernelClient_watch_channel(t)
    \* done.set() of the hook is the done signal of the Action it resolved
    /\ completions' = IF act' # act
                      THEN [completions EXCEPT ![running_action] = Append(@, "done")]
                      ELSE completions
    /\ UNCHANGED <<clientClass, actions, mq, mq_task, msg, emitted, wire, sends, lastSend,
                   observed, calls, pipeline, hooks>>
    /\ UNCHANGED <<pvars, mvars, ovars, context, zmq_channels_connected, delivered,
                   dispatched>>

\* a variant of the monitor that leaves the connected flag alone on a
\* disconnected event
MonitorEvent_KeepConnected(t) ==
    /\ tasks[t].coro = "_watch_channel_for_status"
    /\ tasks[t].channel \in BusyChannels
    /\ tasks[t].state = "running"
    /\ ~tasks[t].must_cancel
    /\ \E event \in {"handshake_succeeded", "disconnected"} :
          IF event = "disconnected"
          THEN /\ Events < MaxDisconnects
               /\ tasks' = [tasks EXCEPT ![t].state = "returned", ![t].cause = "event"]
               /\ UNCHANGED zmq_channels_connected
          ELSE /\ clientClass = "KernelSidecarClient"
               /\ zmq_channels_connected' =
                     [zmq_channels_connected EXCEPT ![tasks[t].channel] = TRUE]
               /\ UNCHANGED tasks
    /\ UNCHANGED <<svars, pvars, mvars, ovars, context, channel_watcher_parent_tasks,
                   channel_watching_tasks, kc_channel, opened, disconnects, delivered,
                   dispatched>>

\* _watch_channel_for_status: the monitor socket reports an event
MonitorEvent(t) ==
    /\ tasks[t].coro = "_watch_channel_for_status"
    /\ tasks[t].channel \in BusyChannels
    /\ tasks[t].state = "running"
    /\ ~tasks[t].must_cancel
    /\ \E event \in {"handshake_succeeded", "disconnected"} :
          IF event = "disconnected"
          THEN /\ Events < MaxDisconnects
               /\ tasks' = [tasks EXCEPT ![t].state = "returned", ![t].cause = "event"]
               /\ zmq_channels_connected' =
                     IF clientClass = "KernelSidecarClient"
                     THEN [zmq_channels_connected EXCEPT ![tasks[t].channel] = FALSE]
                     ELSE zmq_channels_connected
          ELSE /\ clientClass = "KernelSidecarClient"
               /\ zmq_channels_connected' =
                     [zmq_channels_connected EXCEPT ![tasks[t].channel] = TRUE]
               /\ UNCHANGED tasks
    /\ UNCHANGED <<svars, pvars, mvars, ovars, context, channel_watcher_parent_tasks,
                   channel_watching_tasks, kc_channel, opened, disconnects, delivered,
                   dispatched>>

\* a variant of the reader that puts each frame at the head of the queue
ReaderReceive_AtHead(t) ==
    /\ tasks[t].coro = "_watch_channel_for_messages"
    /\ tasks[t].channel \in BusyChannels
    /\ tasks[t].state = "running"
    /\ ~tasks[t].must_cancel
    /\ Received < MaxReceived
    /\ delivered' = [delivered EXCEPT ![tasks[t].channel] = @ + 1]
    /\ mq' = <<[channel |-> tasks[t].channel, seq |-> delivered[tasks[t].channel] + 1,
                gen |-> tasks[t].gen]>> \o mq
    /\ UNCHANGED <<clientClass, act, actions, mq_task, msg, emitted, wire, sends, lastSend,
                   observed, completions, calls, pipeline, hooks>>
    /\ UNCHANGED <<pvars, mvars, ovars, context, tasks, channel_watcher_parent_tasks,
                   channel_watching_tasks, kc_channel, opened, zmq_channels_connected,
                   disconnects, dispatched>>

\* _watch_channel_for_messages: channel.get_msg() returns the next frame of
\* the channel and the reader puts it on the ingress queue
ReaderReceive(t) ==
    /\ tasks[t].coro = "_watch_channel_for_messages"
    /\ tasks[t].channel \in BusyChannels
    /\ tasks[t].state = "running"
    /\ ~tasks[t].must_cancel
    /\ Received < MaxReceived
    /\ delivered' = [delivered EXCEPT ![tasks[t].channel] = @ + 1]
    /\ mq' = Append(mq, [channel |-> tasks[t].channel,
                         seq |-> delivered[tasks[t].channel] + 1, gen |-> tasks[t].gen])
    /\ UNCHANGED <<clientClass, act, actions, mq_task, msg, emitted, wire, sends, lastSend,
                   observed, completions, calls, pipeline, hooks>>
    /\ UNCHANGED <<pvars, mvars, ovars, context, tasks, channel_watcher_parent_tasks,
                   channel_watching_tasks, kc_channel, opened, zmq_channels_connected,
                   disconnects, dispatched>>

\* _watch_channel_for_messages: channel.get_msg() raises; the exception is
\* logged and re-raised, which ends the reader
ReaderFails(t) ==
    /\ tasks[t].coro = "_watch_channel_for_messages"
    /\ tasks[t].channel \in BusyChannels
    /\ tasks[t].state = "running"
    /\ ~tasks[t].must_cancel
    /\ Events < MaxDisconnects
    /\ tasks' = [tasks EXCEPT ![t].state = "raised", ![t].cause = "event"]
    /\ UNCHANGED <<svars, pvars, mvars, ovars, context, channel_watcher_parent_tasks,
                   channel_watching_tasks, kc_channel, opened, zmq_channels_connected,
                   disconnects, delivered, dispatched>>

\* the cancellations requested so far are delivered; the wake-ups of the
\* cancelled tasks are already scheduled, so the event loop runs them in one
\* iteration, before it looks for new events. A task that never ran and a
\* supervisor end cancelled; a reader or monitor catches CancelledError in its
\* loop and returns.
Cancelled(task) ==
    IF task.must_cancel /\ task.state \notin Ended
    THEN [task EXCEPT !.state = IF task.state = "running" THEN "returned" ELSE "cancelled",
                      !.cause = "cancel"]
    ELSE task

DeliverCancel ==
    /\ {t \in DOMAIN tasks : tasks[t].must_cancel /\ ~Final(t)} # {}
    /\ tasks' = [t \in DOMAIN tasks |-> Cancelled(tasks[t])]
    /\ UNCHANGED <<svars, pvars, mvars, ovars, context, channel_watcher_parent_tasks,
                   channel_watching_tasks, kc_channel, opened, zmq_channels_connected,
                   disconnects, delivered, dispatched>>

\* process_message: mq.get() returns the oldest frame and the handlers of its
\* Action are awaited
TakeFrame ==
    /\ mq_task = "running"
    /\ pc = "get"
    /\ mq # <<>>
    /\ mq' = Tail(mq)
    /\ dispatched' = Append(dispatched, Head(mq))
    /\ pc' = "await"
    /\ UNCHANGED <<clientClass, act, actions, mq_task, msg, emitted, wire, sends, lastSend,
                   observed, completions, calls, pipeline, hooks, trail>>
    /\ UNCHANGED <<mvars, ovars, context, tasks, channel_watcher_parent_tasks,
                   channel_watching_tasks, kc_channel, opened, zmq_channels_connected,
                   disconnects, delivered>>

\* process_message: the awaited handlers are done, back to mq.get()
HandlersReturn ==
    /\ mq_task = "running"
    /\ pc = "await"
    /\ pc' = "get"
    /\ UNCHANGED <<svars, trail, mvars, ovars, cvars>>

\* process_message when the cancellation of the dispatcher task is delivered
\*   at mq.get(): CancelledError ends the task (kernel.py: break)
\*   at wait_for(action.handle_message(msg)):
\*     client.py: `except asyncio.CancelledError: logger.warning(...); continue`
\*     kernel.py: `except asyncio.CancelledError: ...; break`
process_message_cancelled(at) ==
    IF at = "await" /\ clientClass = "KernelSidecarClient" THEN "running" ELSE "cancelled"

DispatcherCancelled ==
    /\ mq_task = "cancelling"
    /\ mq_task' = process_message_cancelled(pc)
    /\ pc' = "get"
    /\ UNCHANGED <<clientClass, act, actions, mq, msg, emitted, wire, sends, lastSend,
                   observed, completions, calls, pipeline, hooks, trail>>
    /\ UNCHANGED <<mvars, ovars, cvars>>

\* __aexit__: cancel every task of both lists and the dispatcher
aexit ==
    /\ context = "entered"
    /\ context' = "exited"
    /\ tasks' = Cancel(tasks, {channel_watcher_parent_tasks[i] :
                                  i \in DOMAIN channel_watcher_parent_tasks}
                              \cup {channel_watching_tasks[i] :
                                       i \in DOMAIN channel_watching_tasks})
    /\ mq_task' = IF mq_task = "running" THEN "cancelling" ELSE mq_task
    /\ UNCHANGED <<clientClass, act, actions, mq, msg, emitted, wire, sends, lastSend,
                   observed, completions, calls, pipeline, hooks>>
    /\ UNCHANGED <<pvars, mvars, ovars, channel_watcher_parent_tasks, channel_watching_tasks,
                   kc_channel, opened, zmq_channels_connected, disconnects, delivered,
                   dispatched>>

\* a client of either revision, constructed and not yet entered
ChannelInit ==
    /\ clientClass \in ClientClasses
    /\ act = [a \in ActionIds |->
                 KernelAction(IF a = "a1" THEN "m1" ELSE "m2", "execute_request", <<>>)]
    /\ actions = <<>>
    /\ mq = <<>>
    /\ mq_task = "none"
    /\ msg = UnboundMsg
    /\ emitted = 0
    /\ wire = <<>>
    /\ sends = 0
    /\ lastSend = [action |-> "none", result |-> "none"]
    /\ observed = [a \in ActionIds |-> <<>>]
    /\ completions = [a \in ActionIds |-> <<>>]
    /\ calls = [a \in ActionIds |-> [h \in Handlers |-> 0]]
    /\ pipeline = [raw |-> UnboundMsg, outcome |-> "none", action |-> "none",
                   delivered |-> UnboundMsg, invoked |-> <<>>, warned |-> FALSE]
    /\ hooks = [k \in {"orphan", "unparseable", "untracked", "late"} |-> 0]
    /\ pc = "get"
    /\ trail = <<>>
    /\ comms = {}
    /\ instances = 0
    /\ comm_log = <<>>
    /\ NoCalls
    /\ NoOutput
    /\ clientSubclass = "none"
    /\ Constructed

ChannelNext ==
    \/ aenter
    \/ \E t \in DOMAIN tasks : Start(t)
    \/ \E t \in DOMAIN tasks : Cycle(t)
    \/ \E t \in DOMAIN tasks : MonitorEvent(t)
    \/ \E t \in DOMAIN tasks : ReaderReceive(t)
    \/ \E t \in DOMAIN tasks : ReaderFails(t)
    \/ DeliverCancel
    \/ TakeFrame
    \/ HandlersReturn
    \/ DispatcherCancelled
    \/ aexit

\* the channel supervisors, their sub-tasks and the dispatcher, from entering
\* the async context to leaving it
ChannelSpec == ChannelInit /\ [][ChannelNext]_vars

\* ---------------------------------------------------- the output handler
\* messages the OutputHandler is called with in one behaviour
MaxOutputMsgs == 4

\* display ids a display_data message may carry ("None": no display id)
DisplayIds == {"None", "d1"}

\* the comm ids of the comm_msg frames: an Output widget and a comm the Comm
\* Manager does not hold
OutputCommIds == WidgetIds \cup {"c9"}

\* what the handle_* methods read of a message
OutputMsg(t, wait, display_id, comm_id, msg_id) ==
    [msg_type |-> t, wait |-> wait, display_id |-> display_id, comm_id |-> comm_id,
     msg_id |-> msg_id]

\* the messages of an execute request that reach its handlers
OutputMessages ==
    {OutputMsg(t, FALSE, "None", "None", "None") :
        t \in {"stream", "execute_result", "error", "execute_input", "status"}}
    \cup {OutputMsg("display_data", FALSE, d, "None", "None") : d \in DisplayIds}
    \cup {OutputMsg("update_display_data", FALSE, "d1", "None", "None")}
    \cup {OutputMsg("clear_output", w, "None", "None", "None") : w \in BOOLEAN}
    \cup {OutputMsg("comm_msg", FALSE, "None", c, i) :
             c \in OutputCommIds, i \in {"", "m1"}}

\* msg.content of the n-th message, as it is stored in an output list
Content(m, n) == [output_type |-> m.msg_type, display_id |-> m.display_id, n |-> n]

\* the handler, the cell and the widgets at the start of a call, with the log
\* of the overridable methods the call runs
HandlerState == [h |-> output_handler, cell |-> cell, widgets |-> widgets, log |-> <<>>]

\* nb_builder.py NotebookBuilder.replace_display_data on the outputs of the cell
replace_display_data(outputs, content) ==
    [i \in DOMAIN outputs |->
        IF /\ outputs[i].output_type \in {"display_data", "update_display_data"}
           /\ outputs[i].display_id = content.display_id
        THEN content ELSE outputs[i]]

\* SimpleOutputHandler.sync_display_data
sync_display_data(S, content) ==
    [S EXCEPT !.cell.outputs = replace_display_data(@, content),
              !.log = Append(@, "sync_display_data")]

\* OutputHandler.add_content: inside an Output widget context the content goes
\* to the widget's outputs, which are sent back to the kernel; else to the cell
add_content(S, content) ==
    IF S.h.output_widget_contexts # <<>>
    THEN LET w == Head(S.h.output_widget_contexts)
         IN  [S EXCEPT !.widgets[w].outputs = Append(@, content),
                       !.log = @ \o <<"sync_output_widget_state",
                                      "add_output_widget_content">>]
    ELSE [S EXCEPT !.cell.outputs = Append(@, content),
                   !.log = Append(@, "add_cell_content")]

\* OutputHandler.clear_content; NotebookBuilder.clear_cell_output also resets
\* the execution count of a code cell
clear_content(S) ==
    IF S.h.output_widget_contexts # <<>>
    THEN LET w == Head(S.h.output_widget_contexts)
         IN  [S EXCEPT !.widgets[w].outputs = <<>>,
                       !.log = @ \o <<"sync_output_widget_state",
                                      "clear_output_widget_content">>]
    ELSE [S EXCEPT !.cell = [outputs |-> <<>>, execution_count |-> "None"],
                   !.log = Append(@, "clear_cell_content")]

OutputHandler_handle_stream(S, content) ==
    add_content(IF S.h.clear_on_next_output
                THEN [clear_content(S) EXCEPT !.h.clear_on_next_output = FALSE]
                ELSE S, content)

OutputHandler_handle_execute_result(S, content) ==
    add_content(IF S.h.clear_on_next_output
                THEN [clear_content(S) EXCEPT !.h.clear_on_next_output = FALSE]
                ELSE S, content)

OutputHandler_handle_error(S, content) ==
    add_content(IF S.h.clear_on_next_output
                THEN [clear_content(S) EXCEPT !.h.clear_on_next_output = FALSE]
                ELSE S, content)

OutputHandler_handle_display_data(S, content) ==
    LET added == add_content(IF S.h.clear_on_next_output
                             THEN [clear_content(S) EXCEPT !.h.clear_on_next_output = FALSE]
                             ELSE S, content)
    IN  IF content.display_id # "None" THEN sync_display_data(added, content) ELSE added

OutputHandler_handle_update_display_data(S, content) == sync_display_data(S, content)

\* a variant of handle_clear_output that clears at once whatever wait says
handle_clear_output_AtOnce(S, m) == clear_content(S)

OutputHandler_handle_clear_output(S, m) ==
    IF m.wait THEN [S EXCEPT !.h.clear_on_next_output = TRUE] ELSE clear_content(S)

\* OutputHandler.handle_comm_msg: an update of an Output widget with a msg_id
\* enters the widget's context, one with an empty msg_id leaves it;
\* list.remove raises ValueError for a widget that is not in the list
OutputHandler_handle_comm_msg(S, m) ==
    IF m.comm_id \notin WidgetIds THEN S
    ELSE IF m.msg_id # ""
    THEN [S EXCEPT !.h.output_widget_contexts = <<m.comm_id>> \o @]
    ELSE IF InSeq(S.h.output_widget_contexts, m.comm_id)
    THEN LET q == S.h.output_widget_contexts
             i == CHOOSE k \in DOMAIN q : q[k] = m.comm_id /\ \A j \in 1..(k - 1) : q[j] # m.comm_id
         IN  [S EXCEPT !.h.output_widget_contexts = SubSeq(q, 1, i - 1) \o SubSeq(q, i + 1, Len(q))]
    ELSE [S EXCEPT !.log = Append(@, "ValueError")]

\* SimpleOutputHandler.handle_execute_input
OutputHandler_handle_execute_input(S, m) == [S EXCEPT !.cell.execution_count = "n"]

\* Handler.__call__: the method named after the msg_type, else
\* unhandled_message, which does nothing
OutputHandler_call(S, m, n) ==
    CASE m.msg_type = "stream" -> OutputHandler_handle_stream(S, Content(m, n))
      [] m.msg_type = "execute_result" -> OutputHandler_handle_execute_result(S, Content(m, n))
      [] m.msg_type = "error" -> OutputHandler_handle_error(S, Content(m, n))
      [] m.msg_type = "display_data" -> OutputHandler_handle_display_data(S, Content(m, n))
      [] m.msg_type = "update_display_data" ->
            OutputHandler_handle_update_display_data(S, Content(m, n))
      [] m.msg_type = "clear_output" -> OutputHandler_handle_clear_output(S, m)
      [] m.msg_type = "comm_msg" -> OutputHandler_handle_comm_msg(S, m)
      [] m.msg_type = "execute_input" -> OutputHandler_handle_execute_input(S, m)
      [] OTHER -> S

\* the Action of the execute request calls its OutputHandler with a message
OutputMessage ==
    /\ Len(handled) < MaxOutputMsgs
    /\ \E m \in OutputMessages :
          LET S == OutputHandler_call(HandlerState, m, Len(handled) + 1)
          IN  /\ output_handler' = S.h
              /\ cell' = S.cell
              /\ widgets' = S.widgets
              /\ handled' = Append(handled, [msg |-> m, log |-> S.log])
    /\ UNCHANGED <<svars, pvars, mvars, msg_handler, opening, stdin_calls, clientSubclass,
                   cvars>>

\* a client with one execute request whose handler is a SimpleOutputHandler
OutputInit ==
    /\ clientClass = "KernelSidecarClient"
    /\ act = [a \in ActionIds |->
                 KernelAction(IF a = "a1" THEN "m1" ELSE "m2", "execute_request", <<>>)]
    /\ actions = <<>>
    /\ mq = <<>>
    /\ mq_task = "none"
    /\ msg = UnboundMsg
    /\ emitted = 0
    /\ wire = <<>>
    /\ sends = 0
    /\ lastSend = [action |-> "none", result |-> "none"]
    /\ observed = [a \in ActionIds |-> <<>>]
    /\ completions = [a \in ActionIds |-> <<>>]
    /\ calls = [a \in ActionIds |-> [h \in Handlers |-> 0]]
    /\ pipeline = [raw |-> UnboundMsg, outcome |-> "none", action |-> "none",
                   delivered |-> UnboundMsg, invoked |-> <<>>, warned |-> FALSE]
    /\ hooks = [k \in {"orphan", "unparseable", "untracked", "late"} |-> 0]
    /\ pc = "get"
    /\ trail = <<>>
    /\ comms = {}
    /\ instances = 0
    /\ comm_log = <<>>
    /\ NoCalls
    /\ NoOutput
    /\ clientSubclass = "none"
    /\ Constructed

OutputNext == OutputMessage

\* the messages of one execute request as its OutputHandler handles them
OutputSpec == OutputInit /\ [][OutputNext]_vars

\* ------------------------------------------- a disconnect under requests
\* client.py __aenter__ and the first run of every task it led to: each of
\* the four supervisors waits on its reader and its monitor, which run
EnteredTasks ==
    [i \in 1..12 |->
        IF i <= 4
        THEN [Task("watch_channel", Channels[i], 0) EXCEPT
                 !.state = "waiting", !.sub = <<3 + 2 * i, 4 + 2 * i>>]
        ELSE IF i % 2 = 1
        THEN [Task("_watch_channel_for_messages", Channels[(i - 3) \div 2], 1) EXCEPT
                 !.state = "running"]
        ELSE [Task("_watch_channel_for_status", Channels[(i - 4) \div 2], 0) EXCEPT
                 !.state = "running"]]

Entered ==
    /\ context = "entered"
    /\ tasks = EnteredTasks
    /\ channel_watcher_parent_tasks = <<1, 2, 3, 4>>
    /\ channel_watching_tasks = <<5, 6, 7, 8, 9, 10, 11, 12>>
    /\ kc_channel = [c \in ChannelNames |-> 1]
    /\ opened = [c \in ChannelNames |-> 1]
    /\ zmq_channels_connected = [c \in ChannelNames |-> TRUE]
    /\ disconnects = [c \in ChannelNames |-> 0]
    /\ delivered = [c \in ChannelNames |-> 0]
    /\ dispatched = <<>>

\* a KernelSidecarClient, or the DisconnectHandlingClient of
\* test_zmq_disconnect.py, inside its context with two execute requests to send
DisconnectInit ==
    /\ clientClass = "KernelSidecarClient"
    /\ clientSubclass \in {"none", "DisconnectHandlingClient"}
    /\ act = [a \in ActionIds |->
                 KernelAction(IF a = "a1" THEN "m1" ELSE "m2", "execute_request", <<>>)]
    /\ actions = <<>>
    /\ mq = <<>>
    /\ mq_task = "running"
    /\ msg = UnboundMsg
    /\ emitted = 0
    /\ wire = <<>>
    /\ sends = 0
    /\ lastSend = [action |-> "none", result |-> "none"]
    /\ observed = [a \in ActionIds |-> <<>>]
    /\ completions = [a \in ActionIds |-> <<>>]
    /\ calls = [a \in ActionIds |-> [h \in Handlers |-> 0]]
    /\ pipeline = [raw |-> UnboundMsg, outcome |-> "none", action |-> "none",
                   delivered |-> UnboundMsg, invoked |-> <<>>, warned |-> FALSE]
    /\ hooks = [k \in {"orphan", "unparseable", "untracked", "late"} |-> 0]
    /\ pc = "get"
    /\ trail = <<>>
    /\ comms = {}
    /\ instances = 0
    /\ comm_log = <<>>
    /\ NoCalls
    /\ NoOutput
    /\ Entered

DisconnectNext ==
    \/ \E a \in ActionIds : Send(a)
    \/ KernelEmit
    \/ ProcessMessage
    \/ \E a \in ActionIds : SafetyNetFire(a)
    \/ \E t \in DOMAIN tasks : MonitorEvent(t)
    \/ \E t \in DOMAIN tasks : Cycle(t)

\* requests in flight while a channel disconnects and its supervisor cycles it
\* and calls the disconnect hook; what the replacement supervisor does next is
\* in ChannelSpec
DisconnectSpec == DisconnectInit /\ [][DisconnectNext]_vars

\* ---------------------------------------------------------------- C1
\* a status=idle frame for the submitted Action a waits in the ingress queue
IdleEmittedFor(a) ==
    /\ a \in Registered
    /\ act[a].sent
    /\ \E i \in DOMAIN mq : IsIdle(mq[i]) /\ mq[i].parent = act[a].msg_id

\* C1 (as stated): for every Action submitted through Client.send, once the
\* kernel has emitted status=idle for its msg_id the Action is eventually done.
C1_ActionLiveness ==
    \A a \in ActionIds : IdleEmittedFor(a) ~> act[a].done

\* ---------------------------------------------------------------- C2
\* C2: the done signal of an Action is given at most once: it has been given
\* exactly once when the Action is done and never otherwise, whatever idle,
\* reply or timer events follow the completion.
C2_DoneAtMostOnce ==
    \A a \in ActionIds :
        Occurrences(completions[a], "done") = (IF act[a].done THEN 1 ELSE 0)

\* a further idle or reply has been dispatched to an Action that was done
C2_IdleOrReplyAfterDone ==
    /\ pipeline.outcome = "late"
    /\ act[pipeline.action].done
    /\ (IsIdle(pipeline.delivered) \/ IsReply(act[pipeline.action], pipeline.delivered))

\* ---------------------------------------------------------------- C3
\* C3: an Action that has handled status=idle and either has handled its
\* expected reply or has a null expected reply type (a comm request) is done.
C3_CompletionCondition ==
    \A a \in ActionIds :
        (InSeq(observed[a], "idle")
           /\ (InSeq(observed[a], "reply") \/ ~ExpectsReply(act[a])))
        => act[a].done

\* the comm request is done after idle alone
C3_CommDoneOnIdle ==
    /\ ~ExpectsReply(act["a2"])
    /\ act["a2"].done
    /\ InSeq(observed["a2"], "idle")
    /\ ~InSeq(observed["a2"], "reply")

\* ---------------------------------------------------------------- C4
SeenBefore(q, x, y) ==
    \E i, j \in DOMAIN q : i < j /\ q[i] = x /\ q[j] = y

\* C4: for an Action that expects a reply, idle then reply and reply then idle
\* both end in done, and while only one of the two has been handled the Action
\* is not done unless its safety-net timer has fired.
C4_OrderIndependence ==
    \A a \in ActionIds :
        ExpectsReply(act[a]) =>
            /\ SeenBefore(observed[a], "idle", "reply") => act[a].done
            /\ SeenBefore(observed[a], "reply", "idle") => act[a].done
            /\ (act[a].done /\ act[a].safety_net # "fired")
                 => (InSeq(observed[a], "idle") /\ InSeq(observed[a], "reply"))

\* idle was handled before the reply, and the Action is done
C4_IdleThenReply ==
    /\ SeenBefore(observed["a1"], "idle", "reply")
    /\ act["a1"].done

C6_SafetyNetCancelled ==
    /\ [](\A a \in ActionIds : act[a].done => act[a].safety_net # "pending")
    /\ [][\A a \in ActionIds :
            act[a].done
            => /\ act'[a].safety_net = act[a].safety_net
               /\ act'[a].reply_seen = act[a].reply_seen
               /\ act'[a].done
               /\ completions'[a] = completions[a]]_vars

\* the reply arrived while the timer was armed: the timer is cancelled
C6_Cancelled ==
    \E a \in ActionIds : act[a].done /\ act[a].safety_net = "cancelled"

\* ---------------------------------------------------------------- C7
\* C7 (as stated): when an Action is done, on_action_complete has been invoked
\* exactly once on every handler of its list, in registration order, and the
\* done signal came after all of these invocations.
C7_CompletionHooksOnce ==
    \A a \in ActionIds :
        act[a].done
        => /\ completions[a] = act[a].handlers \o <<"done">>
           /\ \A h \in Handlers :
                 InSeq(act[a].handlers, h) => Occurrences(completions[a], h) = 1

\* ---------------------------------------------------------------- C8
\* C8: when the dispatcher handles a frame, every Action that is already done
\* keeps its state, its user and default handlers are not invoked, and it
\* stays in the registry; a comm_open / comm_msg / comm_close frame for a done
\* Action is still handed to the Comm Manager in its handler list.
C8_LateMessagesDropped ==
    [][(mq # <<>> /\ mq' = Tail(mq)) =>
          \A a \in ActionIds :
             act[a].done
             => /\ act'[a] = act[a]
                /\ observed'[a] = observed[a]
                /\ completions'[a] = completions[a]
                /\ \A h \in Handlers \ {CommManager} : calls'[a][h] = calls[a][h]
                /\ a \in Registered
                /\ actions' = actions
                /\ (Head(mq).msg_type \in CommTypes /\ Head(mq).parent = act[a].msg_id
                      /\ InSeq(act[a].handlers, CommManager))
                   => calls'[a][CommManager] = calls[a][CommManager] + 1]_vars

\* a comm frame for a done Action went to the Comm Manager and to nothing else
C8_LateCommDelivered ==
    /\ pipeline.outcome = "late"
    /\ pipeline.raw.msg_type \in CommTypes
    /\ pipeline.invoked = <<CommManager>>
    /\ hooks["late"] = 0

\* ---------------------------------------------------------------- C9
\* C9 (as stated): in every reachable state an Action whose sent flag is false
\* is not in the Client's registry, also after a send whose transport failed.
C9_UnsentNotRegistered ==
    \A a \in ActionIds : ~act[a].sent => a \notin Registered

\* ---------------------------------------------------------------- C10
\* C10: a call of Client.send for an Action that is already sent, or whose
\* msg_id is already a key of the registry, ends with an error and changes
\* neither the registry, nor the Action's handler list, nor its sent flag, and
\* puts nothing on the wire.
C10_ResubmissionRejected ==
    [][\A a \in ActionIds :
          (sends' = sends + 1 /\ lastSend'.action = a
             /\ (act[a].sent \/ act[a].msg_id \in Keys))
          => /\ lastSend'.result = "RuntimeError"
             /\ actions' = actions
             /\ wire' = wire
             /\ act'[a].handlers = act[a].handlers
             /\ act'[a].sent = act[a].sent]_vars

\* a2 was rejected because its msg_id is the key of the registered a1
C10_Rejected ==
    /\ lastSend = [action |-> "a2", result |-> "RuntimeError"]
    /\ ~act["a2"].sent
    /\ "a1" \in Registered /\ "a2" \notin Registered
    /\ act["a2"].msg_id = act["a1"].msg_id

\* ---------------------------------------------------------------- C11
\* C11 (as stated): after Client.send succeeded the Action's handler list is
\* the user handlers, then the Client's default handlers, then the Comm
\* Manager; and whenever handlers ran for a message of a not-yet-done Action
\* the Comm Manager was the last one invoked.
C11_HandlerOrder ==
    clientClass = "KernelSidecarClient" =>
        /\ \A a \in ActionIds :
              act[a].sent =>
                \E hs \in UserHandlerLists :
                    act[a].handlers = hs \o default_handlers \o <<CommManager>>
        /\ pipeline.invoked # <<>> =>
              pipeline.invoked[Len(pipeline.invoked)] = CommManager

\* ---------------------------------------------------------------- C12
\* the dispatcher takes a frame that parses and whose parent is registered
DispatchesParsed ==
    /\ mq # <<>> /\ mq' = Tail(mq)
    /\ Head(mq).msg_type \in MessageTypes
    /\ Head(mq).parent \in Keys

\* C12 (as stated): for every message delivered to a not-yet-done Action each
\* handler of the Action's list is invoked exactly once, in registration order.
C12_PipelineOncePerHandler ==
    [][DispatchesParsed =>
          LET a == Lookup(Head(mq).parent)
          IN  ~act[a].done =>
                /\ pipeline'.invoked = act[a].handlers
                /\ \A h \in Handlers :
                      calls'[a][h] = calls[a][h]
                                     + (IF InSeq(act[a].handlers, h) THEN 1 ELSE 0)]_vars

\* ---------------------------------------------------------------- C13
\* C13: the callbacks of at most one frame are in progress; a frame is taken
\* off the queue only after the callbacks of every earlier frame have finished,
\* failed or timed out; and frames are handled in the order they were
\* enqueued, so the messages of one Action reach it in that order.
C13_SerialDispatch ==
    /\ Cardinality({i \in DOMAIN trail : trail[i].ending = "running"}) <= 1
    /\ \A i \in DOMAIN trail : i < Len(trail) => trail[i].ending # "running"
    /\ \A i, j \in DOMAIN trail : i < j => trail[i].seq < trail[j].seq

\* a second frame of the same Action was enqueued while the callbacks of the
\* first were awaited, and is being handled after them
C13_SecondFrameWaited ==
    /\ Len(trail) >= 2
    /\ trail[1].action = trail[2].action
    /\ Len(trail[1].invoked) = Len(Callbacks)
    /\ trail[2].ending = "running"
    /\ mq # <<>>

\* ---------------------------------------------------------------- C14
\* C14 (as stated): a frame with a parent header that does not parse goes to
\* the on_unparseable hook, no handler of any Action is invoked and no Action
\* changes on account of it, and the dispatcher goes on.
C14_UnparseableSkipped ==
    [][(mq # <<>> /\ mq' = Tail(mq)
          /\ Head(mq).parent # NoParent /\ Head(mq).msg_type \notin MessageTypes)
       => /\ hooks' = Bumped(hooks, "unparseable")
          /\ calls' = calls
          /\ act' = act
          /\ mq_task' = "running"]_vars

\* ---------------------------------------------------------------- C15
\* C15 (as stated): no sequence of orphan, unparseable or untracked frames
\* stops the dispatcher: without cancellation the dispatcher task is running.
C15_DispatcherSurvives == mq_task = "running"

\* ---------------------------------------------------------------- C16
\* C16: a frame without parent header goes to the on_orphan hook and is not
\* parsed; a parsed frame whose parent msg_id is not a key of the registry goes
\* to the on_untracked hook; in both cases no handler runs, no Action and not
\* the registry change and the loop goes on. Handlers run only for the Action
\* registered under the parent msg_id of the delivered message.
C16_RoutingPrecondition ==
    [][(mq # <<>> /\ mq' = Tail(mq)) =>
          /\ Head(mq).parent = NoParent
               => /\ hooks' = Bumped(hooks, "orphan")
                  /\ msg' = msg
                  /\ calls' = calls /\ act' = act /\ actions' = actions
                  /\ mq_task' = "running"
          /\ (Head(mq).parent # NoParent /\ Head(mq).parent \notin Keys
                 /\ Head(mq).msg_type \in MessageTypes)
               => /\ hooks' = Bumped(hooks, "untracked")
                  /\ calls' = calls /\ act' = act /\ actions' = actions
                  /\ mq_task' = "running"
          /\ \A a \in ActionIds :
                calls'[a] # calls[a]
                => /\ pipeline'.delivered.parent \in Keys
                   /\ Lookup(pipeline'.delivered.parent) = a]_vars

\* an orphan frame and an untracked frame have been handled, and a message
\* has been delivered to a registered Action
C16_OrphanAndUntracked ==
    /\ hooks["orphan"] > 0
    /\ hooks["untracked"] > 0
    /\ pipeline.outcome = "delivered"

\* ---------------------------------------------------------------- C17
\* C17 (as stated): when the callbacks of one message exceed handler_timeout
\* they are cancelled (none of them runs afterwards) and the dispatcher keeps
\* running, so the next queued frame is dispatched.
C17_TimeoutKeepsDispatcher ==
    \A i \in DOMAIN trail :
        trail[i].ending = "timeout" => mq_task = "running"

\* ---------------------------------------------------------------- C18
\* C18 (as stated): when a handler or observer raises while handling a
\* message, the callbacks registered after it are still invoked for that same
\* message and the dispatcher keeps running.
C18_ExceptionKeepsPipeline ==
    \A i \in DOMAIN trail :
        trail[i].ending \in {"handler_error", "observer_error"}
        => (trail[i].invoked = Callbacks /\ mq_task = "running")

\* ---------------------------------------------------------------- C19
\* C19 (as stated): after a Client.send whose transport send failed, the
\* Action has sent = false and is not in the registry, and an Action that was
\* never sent has had no message routed to it.
C19_FailedSendLeavesNoTrace ==
    /\ lastSend.result = "TransportError"
         => (~act[lastSend.action].sent /\ lastSend.action \notin Registered)
    /\ \A a \in ActionIds :
          ~act[a].sent => \A h \in Handlers : calls[a][h] = 0

\* ---------------------------------------------------------------- C20
\* C20 (as stated): once the Comm Manager has delivered comm_close(id) to the
\* handler stored under id, id is not in comms, whatever the handler did with
\* the message.
C20_CloseRemovesComm ==
    \A i \in DOMAIN comm_log :
        (i = Len(comm_log) /\ comm_log[i].msg_type = "comm_close"
           /\ comm_log[i].to # NoHandler)
        => comm_log[i].comm_id \notin CommKeys

\* ---------------------------------------------------------------- C21
\* the Comm Manager handles one more message
CommManagerHandles == Len(comm_log') = Len(comm_log) + 1

\* C21: a comm_open for a comm_id that is already in comms is delivered to the
\* handler stored under it, creates no handler instance and leaves comms
\* unchanged, whether or not its target_name is registered.
C21_DuplicateOpenIdempotent ==
    [][(CommManagerHandles /\ Last(comm_log').msg_type = "comm_open"
          /\ Last(comm_log').comm_id \in CommKeys)
       => /\ Last(comm_log').to = CommHandlerOf(Last(comm_log').comm_id)
          /\ Last(comm_log').hook = "none"
          /\ instances' = instances
          /\ comms' = comms]_vars

\* a second comm_open of a known comm_id, with an unregistered target name,
\* went to the handler created by the first
C21_DuplicateOpenDelivered ==
    \E i, j \in DOMAIN comm_log :
        /\ i < j
        /\ comm_log[i].msg_type = "comm_open" /\ comm_log[j].msg_type = "comm_open"
        /\ comm_log[i].comm_id = comm_log[j].comm_id
        /\ comm_log[j].target_name \notin targets
        /\ comm_log[i].to # NoHandler /\ comm_log[j].to = comm_log[i].to
        /\ instances = 1

\* ---------------------------------------------------------------- C22
\* C22: a comm_open with an unknown comm_id and an unregistered target_name
\* invokes only the unrecognized-target hook, a comm_msg with an unknown
\* comm_id invokes only the unrecognized-comm hook; neither raises, neither
\* reaches a comm handler, neither changes comms.
C22_UnrecognizedHarmless ==
    [][CommManagerHandles =>
          LET e == Last(comm_log')
          IN  /\ (e.msg_type = "comm_open" /\ e.comm_id \notin CommKeys
                    /\ e.target_name \notin targets)
                  => /\ e.hook = "unrecognized_comm_target"
                     /\ e.to = NoHandler /\ ~e.raised
                     /\ comms' = comms /\ instances' = instances
              /\ (e.msg_type = "comm_msg" /\ e.comm_id \notin CommKeys)
                  => /\ e.hook = "unrecognized_comm_id"
                     /\ e.to = NoHandler /\ ~e.raised
                     /\ comms' = comms /\ instances' = instances]_vars

\* both kinds of unrecognized traffic have been handled
C22_BothUnrecognized ==
    /\ \E i \in DOMAIN comm_log : comm_log[i].hook = "unrecognized_comm_target"
    /\ \E i \in DOMAIN comm_log :
          comm_log[i].msg_type = "comm_msg" /\ comm_log[i].hook = "unrecognized_comm_id"
    /\ comms = {}

\* ---------------------------------------------------------------- C23
\* C23: a comm_msg seen under any Action is delivered by the Comm Manager to
\* the comm handler stored under the message's comm_id and to no other, also
\* when the Action's request was sent for another comm_id; the Action's user
\* handlers see the message once.
C23_RoutedByCommId ==
    [][(CommManagerHandles /\ Last(comm_log').msg_type = "comm_msg") =>
          LET e == Last(comm_log')
              a == pipeline'.action
          IN  /\ pipeline'.delivered.comm_id = e.comm_id
              /\ e.comm_id \in CommKeys => e.to = CommHandlerOf(e.comm_id)
              /\ e.comm_id \notin CommKeys => e.to = NoHandler
              /\ \A h \in {"u1", "u2"} : calls'[a][h] = calls[a][h] + 1]_vars

\* under the request a2, sent for comm c1, the kernel emitted a comm_msg of
\* comm c2: it went to the handler of c2 although c1 has a handler too
C23_OtherCommUnderRequest ==
    /\ pipeline.action = "a2"
    /\ RequestCommId("a2") = "c1"
    /\ comm_log # <<>>
    /\ Last(comm_log).msg_type = "comm_msg"
    /\ Last(comm_log).comm_id = "c2"
    /\ {"c1", "c2"} \subseteq CommKeys
    /\ Last(comm_log).to = CommHandlerOf("c2")
    /\ Last(comm_log).to # CommHandlerOf("c1")
    /\ calls["a2"]["u1"] = 1

\* ---------------------------------------------------------------- C24
\* the frames of kind t the comm_open Action was given before it was done
SeenInOpen(t) ==
    {i \in DOMAIN dispatched : ~dispatched[i].late /\ dispatched[i].frame.msg_type = t}

LastOf(S) == CHOOSE i \in S : \A j \in S : j <= i

CloseSeenInOpen ==
    \E i \in SeenInOpen("comm_close") : dispatched[i].frame.comm_id = opening.comm_id

StderrSeenInOpen ==
    \E i \in SeenInOpen("stream") : dispatched[i].frame.name = "stderr"

OpenEnded == opening.result \in {"CommTargetNotFound", "returned"}

\* C24 (as stated): comm_open raises CommTargetNotFound carrying the stderr
\* text when, during the comm_open Action, the kernel emitted comm_close for
\* the same comm_id or a stream on stderr or both; otherwise it returns the
\* handler it stored under the comm_id.
C24_RaisesOnCloseOrStderr ==
    OpenEnded =>
        IF CloseSeenInOpen \/ StderrSeenInOpen
        THEN opening.result = "CommTargetNotFound"
        ELSE opening.result = "returned" /\ opening.handler # NoHandler

\* C24 (amended): comm_open raises CommTargetNotFound exactly when the last
\* comm_close the comm_open Action was given before it was done carries the
\* comm_id of the request; a stream on stderr alone does not make it raise.
\* The exception carries the text of the last stderr stream seen, or None
\* when there was none. Otherwise comm_open returns the handler instance it
\* created, which is the one stored under the comm_id unless a comm_close for
\* that id, not the last one seen or seen after the Action was done, removed it.
C24_RaisesOnClose ==
    OpenEnded =>
        LET closes == SeenInOpen("comm_close")
            errs == {i \in SeenInOpen("stream") : dispatched[i].frame.name = "stderr"}
            closed == closes # {}
                      /\ dispatched[LastOf(closes)].frame.comm_id = opening.comm_id
        IN  /\ opening.result = "CommTargetNotFound" <=> closed
            /\ opening.text = IF errs = {} THEN "None" ELSE dispatched[LastOf(errs)].frame.text
            /\ opening.result = "returned" =>
                  /\ opening.handler # NoHandler
                  /\ opening.comm_id \in CommKeys
                        => CommHandlerOf(opening.comm_id) = opening.handler
                  /\ opening.comm_id \notin CommKeys =>
                        \E i \in DOMAIN dispatched :
                            /\ dispatched[i].frame.msg_type = "comm_close"
                            /\ dispatched[i].frame.comm_id = opening.comm_id

\* comm_open has returned its handler although the kernel wrote to stderr
C24_StderrAloneReturns ==
    /\ opening.result = "returned"
    /\ StderrSeenInOpen
    /\ ~CloseSeenInOpen
    /\ CommHandlerOf(opening.comm_id) = opening.handler

\* ---------------------------------------------------------------- C30
\* C30: a call of send_stdin hands exactly one input_reply to the stdin
\* channel (nothing when the transport send raises), creates no Action, leaves
\* the registry and every Action as they were, and returns to the caller
\* without raising whether or not the transport send failed.
C30_StdinFireAndForget ==
    [][Len(stdin_calls') = Len(stdin_calls) + 1 =>
          LET call == Last(stdin_calls')
          IN  /\ call.result = "returned"
              /\ actions' = actions
              /\ act' = act
              /\ sends' = sends
              /\ wire' = IF call.sent
                         THEN Append(wire, [channel |-> "stdin", msg_id |-> "input_reply"])
                         ELSE wire]_vars

\* send_stdin has returned after a failed transport send, with an Action registered
C30_FailedStdinSend ==
    /\ stdin_calls # <<>>
    /\ ~Last(stdin_calls).sent
    /\ Last(stdin_calls).result = "returned"
    /\ Registered # {}

Cycles(t) ==
    /\ tasks[t].coro = "watch_channel"
    /\ tasks[t].state = "waiting"
    /\ \/ tasks'[t].state \in {"returned", "raised"}
       \/ tasks'[t].sub # tasks[t].sub

\* a sub-task of supervisor t has ended with an exception
SubRaised(t) == \E i \in DOMAIN tasks[t].sub : tasks[tasks[t].sub[i]].state = "raised"

\* C25: in KernelSidecarClient, each time a supervisor comes back from its
\* wait because a sub-task returned, the other sub-task is cancelled, the
\* cached channel of the transport is dropped, exactly one new supervisor task
\* for the same channel is created and listed, and handle_zmq_disconnect is
\* called once for that channel; the disconnect count changes in no other step.
C25_ChannelCycling ==
    [][clientClass = "KernelSidecarClient" =>
         /\ \A t \in DOMAIN tasks :
               (Cycles(t) /\ ~SubRaised(t)) =>
                  LET c == tasks[t].channel
                  IN  /\ \A i \in DOMAIN tasks[t].sub :
                            \/ Final(tasks[t].sub[i])
                            \/ tasks'[tasks[t].sub[i]].must_cancel
                      /\ kc_channel'[c] = 0
                      /\ Len(tasks') = Len(tasks) + 1
                      /\ Last(tasks') = Task("watch_channel", c, 0)
                      /\ channel_watcher_parent_tasks' =
                            Append(channel_watcher_parent_tasks, Len(tasks'))
                      /\ disconnects' = [disconnects EXCEPT ![c] = @ + 1]
         /\ disconnects' # disconnects => \E t \in DOMAIN tasks : Cycles(t)]_vars

\* the iopub channel was cycled once and its replacement supervisor is waiting
\* on a second channel object
C25_IopubCycled ==
    /\ clientClass = "KernelSidecarClient"
    /\ context = "entered"
    /\ disconnects["iopub"] = 1
    /\ opened["iopub"] = 2
    /\ kc_channel["iopub"] = 2
    /\ \E t \in DOMAIN tasks :
          /\ tasks[t].coro = "_watch_channel_for_messages"
          /\ tasks[t].channel = "iopub"
          /\ tasks[t].cause = "cancel"

\* ---------------------------------------------------------------- C26
\* C26 (as stated): when the reader of a channel has ended with a transport
\* error and its supervisor comes back from the wait, the channel is cycled
\* like on any disconnect: the cached channel is dropped, a supervisor for the
\* channel is alive afterwards, and (KernelSidecarClient) handle_zmq_disconnect
\* is called for the channel.
C26_ReaderFailureCycles ==
    [][\A t \in DOMAIN tasks :
          (Cycles(t) /\ SubRaised(t)) =>
             LET c == tasks[t].channel
             IN  /\ kc_channel'[c] # kc_channel[c]
                 /\ \E u \in DOMAIN tasks' :
                       /\ tasks'[u].coro = "watch_channel"
                       /\ tasks'[u].channel = c
                       /\ tasks'[u].state \notin Ended
                 /\ clientClass = "KernelSidecarClient"
                       => disconnects'[c] = disconnects[c] + 1]_vars

\* ---------------------------------------------------------------- C27
\* C27 (as stated): once the async context has been left and the requested
\* cancellations have been delivered, every supervisor, reader and monitor
\* has ended and the dispatcher has stopped, whatever they were awaiting.
C27_CancellationStopsAll ==
    (/\ context = "exited"
     /\ \A t \in DOMAIN tasks : tasks[t].must_cancel => Final(t)
     /\ mq_task # "cancelling")
    => /\ \A t \in DOMAIN tasks : Final(t)
       /\ mq_task # "running"

\* ---------------------------------------------------------------- C28
\* frames dispatched so far followed by the frames still in the queue
InDispatchOrder == dispatched \o mq

\* C28: the frames of one channel are dispatched in the order the transport
\* handed them to the readers of that channel, whichever channel object they
\* came from; frames of different channels are in no particular order.
C28_PerChannelFifo ==
    \A i, j \in DOMAIN InDispatchOrder :
        (i < j /\ InDispatchOrder[i].channel = InDispatchOrder[j].channel)
        => InDispatchOrder[i].seq < InDispatchOrder[j].seq

\* two iopub frames were dispatched, one read before a cycle of the channel and
\* one after it
C28_AcrossReconnect ==
    /\ Len(dispatched) = 2
    /\ dispatched[1] = [channel |-> "iopub", seq |-> 1, gen |-> 1]
    /\ dispatched[2] = [channel |-> "iopub", seq |-> 2, gen |-> 2]

\* ---------------------------------------------------------------- C39
\* C39 (as stated): whatever Client.send attempts were made on an Action, the
\* Comm Manager and each default handler of the Client appear at most once in
\* its handler list, exactly once after a send that succeeded, and each is
\* invoked at most once for one message.
C39_NoDuplicateHandlers ==
    clientClass = "KernelSidecarClient" =>
        \A h \in {CommManager} \cup {default_handlers[i] : i \in DOMAIN default_handlers} :
            /\ \A a \in ActionIds :
                  /\ Occurrences(act[a].handlers, h) <= 1
                  /\ act[a].sent => Occurrences(act[a].handlers, h) = 1
            /\ Occurrences(pipeline.invoked, h) <= 1

\* ---------------------------------------------------------------- C33
\* C33: when the dispatcher routes a message to Action B while a different
\* Action A is the running action, B's handlers are invoked with the message
\* as for any other message, A and the registry are left as they were, and
\* KernelSidecarClient records a warning.
C33_OutOfOrderOnlyWarns ==
    [][(/\ mq # <<>> /\ mq' = Tail(mq)
        /\ pipeline'.action # "none"
        /\ running_action \notin {"none", pipeline'.action})
       => LET A == running_action
              B == pipeline'.action
              inv == Invoked(act[B], pipeline'.delivered)
          IN  /\ pipeline'.invoked = inv
              /\ calls'[B] = [h \in Handlers |-> calls[B][h] + Occurrences(inv, h)]
              /\ act'[A] = act[A]
              /\ actions' = actions
              /\ pipeline'.warned <=> clientClass = "KernelSidecarClient"]_vars

\* a message was delivered to an Action while another one was, and still is,
\* the running action
C33_WarnedAndDelivered ==
    /\ pipeline.warned
    /\ pipeline.outcome = "delivered"
    /\ pipeline.invoked # <<>>
    /\ running_action \notin {"none", pipeline.action}

\* ---------------------------------------------------------------- C34
\* C34: running is set only on an Action for which status=busy was observed
\* and is cleared when the Action completes: no Action is both done and
\* running, and running_action is never a completed Action.
C34_RunningLifecycle ==
    /\ \A a \in ActionIds :
          /\ ~(act[a].done /\ act[a].running)
          /\ act[a].running => InSeq(observed[a], "busy")
    /\ running_action # "none" => ~act[running_action].done

\* an Action that was running has completed while another one is running
C34_CompletedWhileOtherRuns ==
    \E a \in ActionIds :
        /\ act[a].done
        /\ InSeq(observed[a], "busy")
        /\ running_action \notin {"none", a}

\* ---------------------------------------------------------------- C38
\* C38 (as stated): what a dispatcher iteration delivers is the message of
\* the frame it took from the queue, to the Action registered under that
\* frame's parent msg_id; an iteration that delivers nothing invokes no
\* handler.
C38_AtMostOnceDelivery ==
    IF pipeline.outcome \in {"delivered", "late"}
    THEN /\ pipeline.delivered = pipeline.raw
         /\ pipeline.raw.parent \in Keys
         /\ pipeline.action = Lookup(pipeline.raw.parent)
    ELSE pipeline.invoked = <<>>

\* ---------------------------------------------------------------- C31
\* a comm_close for comm id has been handled by the Comm Manager
CloseHandled(id) ==
    \E i \in DOMAIN comm_log :
        comm_log[i].msg_type = "comm_close" /\ comm_log[i].comm_id = id

\* C31: the handler of comm_open is stored under the fresh comm_id before any
\* frame of the comm_open Action is dispatched: every comm_msg for that
\* comm_id that the Comm Manager handles while comm_open awaits its Action,
\* and before a comm_close for it, goes to the handler comm_open returns.
C31_PreRegisteredBeforeDispatch ==
    [][(/\ CommManagerHandles
        /\ opening.result = "awaiting"
        /\ Last(comm_log').msg_type = "comm_msg"
        /\ Last(comm_log').comm_id = opening.comm_id
        /\ ~CloseHandled(opening.comm_id))
       => Last(comm_log').to = opening.handler]_vars

\* comm_open has returned its handler, which got a comm_msg as the first frame
\* of the comm_open Action
C31_FirstFrameToHandler ==
    /\ opening.result = "returned"
    /\ comm_log # <<>>
    /\ comm_log[1].msg_type = "comm_msg"
    /\ comm_log[1].comm_id = opening.comm_id
    /\ comm_log[1].to = opening.handler
    /\ dispatched[1].frame.msg_type = "comm_msg"

\* ---------------------------------------------------------------- C32
\* C32 (as stated): when comm_open has raised CommTargetNotFound, the comm_id
\* it stored its handler under is not in comms.
C32_FailedOpenLeavesNoComm ==
    opening.result = "CommTargetNotFound" => opening.comm_id \notin CommKeys

\* ---------------------------------------------------------------- C36
\* the monitor of channel c, running before the step, ends in the step on a
\* disconnected event
MonitorSawDisconnect(c) ==
    \E t \in DOMAIN tasks :
        /\ tasks[t].coro = "_watch_channel_for_status"
        /\ tasks[t].channel = c
        /\ tasks[t].state = "running"
        /\ tasks'[t].state = "returned"
        /\ tasks'[t].cause = "event"

\* a running monitor of channel c observes an event and keeps running
MonitorSawHandshake(c) ==
    /\ tasks' = tasks
    /\ \E t \in DOMAIN tasks :
          /\ tasks[t].coro = "_watch_channel_for_status"
          /\ tasks[t].channel = c
          /\ tasks[t].state = "running"
          /\ ~tasks[t].must_cancel

\* C36: in KernelSidecarClient, entering the context sets
\* zmq_channels_connected to True for all four channels; the flag of a channel
\* becomes False exactly in a step in which the monitor of that channel
\* observes a disconnected event and returns; a False flag becomes True again
\* only in a step in which a running monitor of that channel observes
\* handshake-succeeded
C36_ConnectedFlag ==
    [][clientClass = "KernelSidecarClient" =>
          /\ (context = "new" /\ context' = "entered") =>
                \A c \in ChannelNames : zmq_channels_connected'[c]
          /\ \A c \in ChannelNames :
                /\ MonitorSawDisconnect(c) => ~zmq_channels_connected'[c]
                /\ (zmq_channels_connected[c] /\ ~zmq_channels_connected'[c])
                      => MonitorSawDisconnect(c)
                /\ (context # "new" /\ ~zmq_channels_connected[c]
                      /\ zmq_channels_connected'[c]) => MonitorSawHandshake(c)]_vars

\* iopub was disconnected, cycled, and the monitor of the second channel
\* object saw the handshake
C36_ConnectedAgain ==
    /\ clientClass = "KernelSidecarClient"
    /\ context = "entered"
    /\ disconnects["iopub"] = 1
    /\ opened["iopub"] = 2
    /\ \E t \in DOMAIN tasks :
          /\ tasks[t].coro = "_watch_channel_for_status"
          /\ tasks[t].channel = "iopub"
          /\ tasks[t].cause = "event"
    /\ zmq_channels_connected["iopub"]


\* ---------------------------------------------------------------- C40
\* the supervisors of channel c that have not ended
LiveSupervisors(c) ==
    {t \in DOMAIN tasks : /\ tasks[t].coro = "watch_channel"
                          /\ tasks[t].channel = c
                          /\ ~Final(t)}

\* the readers of channel c that can still put a frame on the ingress queue:
\* not ended and with no cancellation requested
Enqueuers(c) ==
    {t \in DOMAIN tasks : /\ tasks[t].coro = "_watch_channel_for_messages"
                          /\ tasks[t].channel = c
                          /\ ~Final(t)
                          /\ ~tasks[t].must_cancel}

\* every frame that was put on the ingress queue, in queue order
Enqueued == dispatched \o mq

\* C40: in KernelSidecarClient, while the context is entered, each of the four
\* channels has exactly one supervisor that has not ended and at most one
\* reader that can still enqueue frames, and no frame of a channel is on the
\* ingress queue twice
C40_OneSupervisorPerChannel ==
    (clientClass = "KernelSidecarClient" /\ context = "entered") =>
        /\ \A c \in ChannelNames :
              /\ Cardinality(LiveSupervisors(c)) = 1
              /\ Cardinality(Enqueuers(c)) <= 1
        /\ \A i, j \in DOMAIN Enqueued :
              (Enqueued[i].channel = Enqueued[j].channel
                 /\ Enqueued[i].seq = Enqueued[j].seq) => i = j

\* iopub was cycled: its first supervisor ended, a second one watches, and
\* frames of both channel objects were enqueued
C40_AfterCycle ==
    /\ clientClass = "KernelSidecarClient"
    /\ context = "entered"
    /\ opened["iopub"] = 2
    /\ Cardinality(Enqueuers("iopub")) = 1
    /\ \E i, j \in DOMAIN Enqueued :
          /\ Enqueued[i].channel = "iopub" /\ Enqueued[i].gen = 1
          /\ Enqueued[j].channel = "iopub" /\ Enqueued[j].gen = 2

\* ---------------------------------------------------------------- C37
\* the OutputHandler handled message m in this step
Handles(types) ==
    /\ Len(handled') = Len(handled) + 1
    /\ Last(handled').msg.msg_type \in types

OutputTypes == {"stream", "execute_result", "error", "display_data"}

\* the calls that clear content in the step's log
Clears(log) == Occurrences(log, "clear_cell_content")
               + Occurrences(log, "clear_output_widget_content")

\* the outputs content is currently written to and cleared from, before and
\* after the step: those of the innermost Output widget context, else the
\* cell's
Target ==
    IF output_handler.output_widget_contexts # <<>>
    THEN widgets[Head(output_handler.output_widget_contexts)].outputs
    ELSE cell.outputs

TargetAfter ==
    IF output_handler.output_widget_contexts # <<>>
    THEN widgets'[Head(output_handler.output_widget_contexts)].outputs
    ELSE cell'.outputs

\* C37 as stated, read of the cell's content: clear_output with wait=false
\* empties the cell's outputs at once; with wait=true nothing changes until
\* the next stream, execute_result, error or display_data, which leaves the
\* cell's outputs holding its own output only, after exactly one clear
C37_DeferredClearOfCell ==
    [][/\ (Handles({"clear_output"}) /\ ~Last(handled').msg.wait) => cell'.outputs = <<>>
       /\ (Handles({"clear_output"}) /\ Last(handled').msg.wait) =>
             /\ cell' = cell /\ widgets' = widgets
             /\ output_handler'.clear_on_next_output
       /\ (Handles(OutputTypes) /\ output_handler.clear_on_next_output) =>
             /\ Clears(Last(handled').log) = 1
             /\ cell'.outputs = <<Content(Last(handled').msg, Len(handled'))>>
             /\ ~output_handler'.clear_on_next_output]_vars

\* C37, of the content the handler currently writes to (the cell's outputs,
\* or inside an Output widget context the widget's outputs): clear_output
\* with wait=false empties it at once; with wait=true nothing is cleared or
\* changed and the clear stays pending; the next stream, execute_result,
\* error or display_data clears it exactly once, leaves it holding that
\* message's output only, and ends the pending clear; an output with no clear
\* pending is appended; no other message clears or shortens any content
C37_DeferredClear ==
    [][/\ (Handles({"clear_output"}) /\ ~Last(handled').msg.wait) =>
             /\ TargetAfter = <<>>
             /\ Clears(Last(handled').log) = 1
       /\ (Handles({"clear_output"}) /\ Last(handled').msg.wait) =>
             /\ cell' = cell /\ widgets' = widgets
             /\ output_handler'.clear_on_next_output
             /\ Clears(Last(handled').log) = 0
       /\ (Handles(OutputTypes) /\ output_handler.clear_on_next_output) =>
             /\ Clears(Last(handled').log) = 1
             /\ TargetAfter = <<Content(Last(handled').msg, Len(handled'))>>
             /\ ~output_handler'.clear_on_next_output
       /\ (Handles(OutputTypes) /\ ~output_handler.clear_on_next_output) =>
             /\ Clears(Last(handled').log) = 0
             /\ Len(TargetAfter) = Len(Target) + 1
             /\ Last(TargetAfter) = Content(Last(handled').msg, Len(handled'))
       /\ Handles({"update_display_data", "comm_msg", "execute_input", "status"}) =>
             /\ Clears(Last(handled').log) = 0
             /\ Len(cell'.outputs) = Len(cell.outputs)
             /\ \A w \in WidgetIds : Len(widgets'[w].outputs) = Len(widgets[w].outputs)
             /\ output_handler'.clear_on_next_output = output_handler.clear_on_next_output
      ]_vars

\* print, clear_output(wait=True), print: the cell holds the second output only
C37_ClearedByNextOutput ==
    /\ Len(handled) = 3
    /\ handled[1].msg.msg_type = "stream"
    /\ handled[2].msg.msg_type = "clear_output" /\ handled[2].msg.wait
    /\ handled[3].msg.msg_type = "stream"
    /\ Clears(handled[3].log) = 1
    /\ cell.outputs = <<Content(handled[3].msg, 3)>>


\* ---------------------------------------------------------------- C35
\* the supervisor of iopub calls handle_zmq_disconnect in this step
HookRuns == disconnects'["iopub"] = disconnects["iopub"] + 1

\* the supervisor of iopub stops waiting in this step because its monitor
\* returned on a disconnected event
IopubCycles ==
    \E t \in DOMAIN tasks :
        /\ tasks[t].coro = "watch_channel"
        /\ tasks[t].channel = "iopub"
        /\ tasks[t].state = "waiting"
        /\ tasks'[t].state # "waiting"
        /\ tasks[tasks[t].sub[2]].cause = "event"

====
